---- MODULE Spec2Model ----
(***************************************************************************)
(* The MVTree engine of pmemkv (src/engines/mvtree.cc): a volatile B+-tree *)
(* of routing nodes and leaf descriptors over a persistent singly-linked   *)
(* list of leaves, each leaf a fixed array of slots.                       *)
(***************************************************************************)
EXTENDS Integers, Sequences, FiniteSets, TLC

(***************************************************************************)
(* Sizes.  mvtree.h sets LEAF_KEYS and INNER_KEYS; the model derives the   *)
(* midpoints from them by the formulas of the specification and takes      *)
(* small even values so that leaf splits and inner-node splits are reached *)
(* with a handful of keys.                                                 *)
(***************************************************************************)
LEAF_KEYS == 2
LEAF_KEYS_MIDPOINT == LEAF_KEYS \div 2
INNER_KEYS == 2
\* INNER_KEYS_UPPER = ceil((I + 1) / 2) and INNER_KEYS_MIDPOINT =
\* I - INNER_KEYS_UPPER + 1 for INNER_KEYS = I.
InnerKeysUpper(I) == (I + 2) \div 2
InnerKeysMidpoint(I) == I - InnerKeysUpper(I) + 1
INNER_KEYS_MIDPOINT == InnerKeysMidpoint(INNER_KEYS)
INNER_KEYS_UPPER == InnerKeysUpper(INNER_KEYS)

\* Bounds of the model: the persistent leaves the pool has room for, the
\* removals of live keys, the reopenings of the engine and the aborted
\* transactions of one behaviour.
MaxLeaves == 4
MaxRemoves == 1
MaxReopens == 1
MaxFailures == 1
\* The limits of the size-limited Get are 0 .. MaxLimit.
MaxLimit == 2
\* The client threads and the calls they make between them.
MaxThreads == 2
MaxCalls == 4
\* PearsonHash calls, the length of their inputs, and MVTree objects.
MaxHashes == 3
MaxHashLen == 2
MaxEngines == 2

NULL == 0

\* Keys and values are byte strings.  Three of the keys share Pearson hash 1
\* (the empty key, <<1, 49>> and <<15>>, the last through the 0 -> 1 remap).
Keys == { <<>>, <<1, 49>>, <<15>>, <<15, 0>>, <<97>> }
Values == { <<1>>, <<2, 2>> }

\* The values the clients write under a key: both under <<15>>, the first
\* under the others.
ValuesOf(key) == IF key = <<15>> THEN Values ELSE { <<1>> }

Slots == 0 .. (LEAF_KEYS - 1)

\* Pearson hashing lookup table from RFC 3074
PEARSON_LOOKUP_TABLE ==
  <<
    251, 175, 119, 215, 81, 14, 79, 191, 103, 49, 181, 143, 186, 157, 0, 232,
    31, 32, 55, 60, 152, 58, 17, 237, 174, 70, 160, 144, 220, 90, 57, 223,
    59, 3, 18, 140, 111, 166, 203, 196, 134, 243, 124, 95, 222, 179, 197, 65,
    180, 48, 36, 15, 107, 46, 233, 130, 165, 30, 123, 161, 209, 23, 97, 16,
    40, 91, 219, 61, 100, 10, 210, 109, 250, 127, 22, 138, 29, 108, 244, 67,
    207, 9, 178, 204, 74, 98, 126, 249, 167, 116, 34, 77, 193, 200, 121, 5,
    20, 113, 71, 35, 128, 13, 182, 94, 25, 226, 227, 199, 75, 27, 41, 245,
    230, 224, 43, 225, 177, 26, 155, 150, 212, 142, 218, 115, 241, 73, 88, 105,
    39, 114, 62, 255, 192, 201, 145, 214, 168, 158, 221, 148, 154, 122, 12, 84,
    82, 163, 44, 139, 228, 236, 205, 242, 217, 11, 187, 146, 159, 64, 86, 239,
    195, 42, 106, 198, 118, 112, 184, 172, 87, 2, 173, 117, 176, 229, 247, 253,
    137, 185, 99, 164, 102, 147, 45, 66, 231, 52, 141, 211, 194, 206, 246, 238,
    56, 110, 78, 248, 63, 240, 189, 93, 92, 51, 53, 183, 19, 171, 72, 50,
    33, 104, 101, 69, 8, 252, 83, 120, 76, 135, 85, 54, 202, 125, 188, 213,
    96, 235, 136, 208, 162, 129, 190, 132, 156, 38, 47, 1, 7, 254, 24, 4,
    216, 131, 89, 21, 28, 133, 37, 153, 149, 80, 170, 68, 6, 169, 234, 151 >>

(***************************************************************************)
(* Byte strings                                                            *)
(***************************************************************************)
\* The array f[0 .. hi] as an explicit function (f itself may be given by a
\* rule; the arrays of the model are stored element by element).
RECURSIVE Array(_, _)
Array(f, hi) == IF hi = 0 THEN (0 :> f[0]) ELSE Array(f, hi - 1) @@ (hi :> f[hi])

\* std::string::compare: negative, zero or positive (lexicographic on
\* bytes, a proper prefix sorts first).
RECURSIVE CompareFrom(_, _, _)
CompareFrom(a, b, i) ==
  IF i > Len(a) \/ i > Len(b)
    THEN Len(a) - Len(b)
    ELSE IF a[i] /= b[i] THEN a[i] - b[i] ELSE CompareFrom(a, b, i + 1)

Compare(a, b) == CompareFrom(a, b, 1)

\* Bitwise exclusive or of two non-negative integers.
RECURSIVE Xor(_, _)
Xor(a, b) ==
  IF a = 0 THEN b
  ELSE IF b = 0 THEN a
  ELSE ((a + b) % 2) + 2 * Xor(a \div 2, b \div 2)

\* data[i] read through a (signed) char and promoted to int.
SignedChar(b) == IF b >= 128 THEN b - 256 ELSE b

\* hash ^ data[i] in int arithmetic: the sign extension of a negative char
\* sets every bit above the low eight.
PearsonIndex(hash, b) == Xor(hash, b) - (IF SignedChar(b) < 0 THEN 256 ELSE 0)

RECURSIVE PearsonChain(_, _, _)
PearsonChain(hash, data, i) ==
  IF i = 0 THEN hash
  ELSE PearsonChain(PEARSON_LOOKUP_TABLE[PearsonIndex(hash, data[i]) + 1], data, i - 1)

\* Modified Pearson hashing algorithm from RFC 3074
PearsonHash(data) ==
  LET hash == PearsonChain(Len(data) % 256, data, Len(data))
  IN  IF hash = 0 THEN 1 ELSE hash

\* The bytes a PearsonHash call is given, and the bytes the memory in front
\* of PEARSON_LOOKUP_TABLE may hold.
HashBytes == {15, 97, 128, 255}
StrayBytes == {0, 14, 255}

\* PEARSON_LOOKUP_TABLE[index] with the memory in front of the table known
\* as far as mem (index -> byte): the set of [value, mem].  An index inside
\* the table reads the table; a negative index reads the constant memory in
\* front of it, where a byte not read before may be any byte.
TableRead(mem, index) ==
  IF index \in 0 .. 255 THEN { [value |-> PEARSON_LOOKUP_TABLE[index + 1], mem |-> mem] }
  ELSE IF index \in DOMAIN mem THEN { [value |-> mem[index], mem |-> mem] }
  ELSE { [value |-> v, mem |-> mem @@ (index :> v)] : v \in StrayBytes }

\* The loop of PearsonHash from data[i - 1] down: the set of [value, mem].
RECURSIVE PearsonChainIn(_, _, _, _)
PearsonChainIn(mem, hash, data, i) ==
  IF i = 0 THEN { [value |-> hash, mem |-> mem] }
  ELSE UNION { PearsonChainIn(r.mem, r.value, data, i - 1) :
                 r \in TableRead(mem, PearsonIndex(hash, data[i])) }

\* A PearsonHash that returns what the loop leaves.
PearsonHashIn_noRemap(mem, data) ==
  PearsonChainIn(mem, Len(data) % 256, data, Len(data))

\* PearsonHash(data, size) in memory mem: the set of [value, mem].
PearsonHashIn(mem, data) ==
  { [value |-> IF r.value = 0 THEN 1 ELSE r.value, mem |-> r.mem] :
      r \in PearsonChainIn(mem, Len(data) % 256, data, Len(data)) }

(***************************************************************************)
(* State                                                                   *)
(*   pleaves, head     the pool: the persistent leaves (leaf id = index)   *)
(*                     and kv_root->head                                   *)
(*   nodes, tree_top   the volatile heap of MVLeafNode / MVInnerNode       *)
(*                     objects (node id = index) and the top of the tree   *)
(*   leaves_prealloc   persistent leaves found empty by Recover            *)
(*   live              what the client has written: key -> value, or       *)
(*                     <<-1>> for a key that is not live                   *)
(*   last              the last operation and the status it returned       *)
(*   removes, reopens, failures                                            *)
(*                     how many keys have been removed, how often the      *)
(*                     engine has been reopened, how many transactions     *)
(*                     have aborted                                        *)
(***************************************************************************)
VARIABLES pleaves, head, nodes, tree_top, leaves_prealloc, live, last,
          removes, reopens, failures

(***************************************************************************)
(*   kv_root, deleted  the root object of the pool as the engine holds it  *)
(*                     (NULL after Free) and the persistent leaves Free    *)
(*                     has deleted                                         *)
(*   pc, call, gate, calls                                                 *)
(*                     the client threads: where each one is in the        *)
(*                     operation it called, the call and its working       *)
(*                     data, the shared_mutex of the engine, and how many  *)
(*                     calls have been made                                *)
(***************************************************************************)
VARIABLES kv_root, deleted, pc, call, gate, calls

(***************************************************************************)
(*   hashed, below     the calls of PearsonHash made so far (data, result) *)
(*                     and the bytes they have read in front of            *)
(*                     PEARSON_LOOKUP_TABLE (index -> byte)                *)
(*   engine, opened    the MVTree objects (how each was constructed, its   *)
(*                     pmpath, how often its destructor closed the pool)   *)
(*                     and the open handles of each pool                   *)
(***************************************************************************)
VARIABLES hashed, below, engine, opened

(***************************************************************************)
(*   innersplit        the last split of an overflowing inner node, for    *)
(*                     a chosen INNER_KEYS: the node ids, the heap before  *)
(*                     and after, and the key saved for the recursion      *)
(***************************************************************************)
VARIABLES innersplit

vars == <<pleaves, head, nodes, tree_top, leaves_prealloc, live, last,
          removes, reopens, failures, kv_root, deleted, pc, call, gate, calls,
          hashed, below, engine, opened, innersplit>>

\* The hash calls and the MVTree objects of the separate specifications.
apart == <<hashed, below, engine, opened, innersplit>>

\* What the operations of a single client on a live root leave alone.
outside == <<kv_root, deleted, pc, call, gate, calls, hashed, below, engine, opened,
             innersplit>>

NoValue == <<-1>>

(***************************************************************************)
(* MVSlot: kv is null (<<>>) or one allocation                             *)
(*   [hash:u8][key_size:u32][value_size:u32][key bytes][value bytes]       *)
(***************************************************************************)
NullKV == <<>>

\* MVSlot::empty
SlotEmpty(kv) == kv = NullKV

\* MVSlot::set: the block written for (hash, key, value)
SlotBlock(hash, key, value) == <<hash, Len(key), Len(value), key, value>>

\* MVSlot::hash, key()/keysize(), val()/valsize()
SlotHash(kv) == kv[1]
SlotKeySize(kv) == kv[2]
SlotValSize(kv) == kv[3]
SlotKey(kv) == SubSeq(kv[4], 1, kv[2])
SlotVal(kv) == SubSeq(kv[5], 1, kv[3])

\* make_persistent<MVLeaf>(): every slot empty, next null
NewLeaf == [slots |-> Array([s \in Slots |-> NullKV], LEAF_KEYS - 1), next |-> NULL]

\* new MVLeafNode() with is_leaf = true
NewLeafNode(parent) ==
  [is_leaf |-> TRUE, parent |-> parent, keycount |-> 0,
   keys |-> Array([s \in Slots |-> <<>>], LEAF_KEYS - 1),
   children |-> Array([i \in 0 .. (INNER_KEYS + 1) |-> NULL], INNER_KEYS + 1),
   hashes |-> Array([s \in Slots |-> 0], LEAF_KEYS - 1), leaf |-> NULL]

\* new MVInnerNode()
NewInnerNode(parent) ==
  [is_leaf |-> FALSE, parent |-> parent, keycount |-> 0,
   keys |-> Array([i \in 0 .. INNER_KEYS |-> <<>>], INNER_KEYS),
   children |-> Array([i \in 0 .. (INNER_KEYS + 1) |-> NULL], INNER_KEYS + 1),
   hashes |-> Array([s \in Slots |-> 0], LEAF_KEYS - 1), leaf |-> NULL]

\* The volatile and the persistent halves of the state, as values the
\* operations below take and return.
Vol == [nodes |-> nodes, top |-> tree_top, prealloc |-> leaves_prealloc]
Pm == [leaves |-> pleaves, head |-> head]

(***************************************************************************)
(* LeafSearch                                                              *)
(***************************************************************************)
\* LeafSearchFrom with the separator routed to the right child (< for <=).
RECURSIVE LeafSearchFrom_strict(_, _, _)
LeafSearchFrom_strict(ns, node, key) ==
  IF node = NULL THEN NULL
  ELSE IF ns[node].is_leaf THEN node
  ELSE LET inner == ns[node]
           hit == { idx \in 0 .. (inner.keycount - 1) :
                      Compare(key, inner.keys[idx]) < 0 }
       IN  IF hit /= {}
             THEN LeafSearchFrom_strict(ns, inner.children[
                    CHOOSE idx \in hit : \A j \in hit : idx <= j], key)
             ELSE LeafSearchFrom_strict(ns, inner.children[inner.keycount], key)

RECURSIVE LeafSearchFrom(_, _, _)
LeafSearchFrom(ns, node, key) ==
  IF node = NULL THEN NULL
  ELSE IF ns[node].is_leaf THEN node
  ELSE LET inner == ns[node]
           hit == { idx \in 0 .. (inner.keycount - 1) :
                      Compare(key, inner.keys[idx]) <= 0 }
       IN  IF hit /= {}
             THEN LeafSearchFrom(ns, inner.children[
                    CHOOSE idx \in hit : \A j \in hit : idx <= j], key)
             ELSE LeafSearchFrom(ns, inner.children[inner.keycount], key)

LeafSearch(vol, key) == LeafSearchFrom(vol.nodes, vol.top, key)

\* A scan that trusts the hash and does not compare the keys.
MatchSlot_hashOnly(leafnode, hash, key) ==
  LET hit == { s \in Slots : leafnode.hashes[s] = hash }
  IN  IF hit = {} THEN -1 ELSE CHOOSE s \in hit : \A t \in hit : t <= s

\* The slot the descending scan "for (slot = LEAF_KEYS; slot--;)" of Get and
\* Remove stops at: the highest slot whose mirror hash and key match; -1 if none.
MatchSlot(leafnode, hash, key) ==
  LET hit == { s \in Slots : leafnode.hashes[s] = hash
                             /\ Compare(leafnode.keys[s], key) = 0 }
  IN  IF hit = {} THEN -1 ELSE CHOOSE s \in hit : \A t \in hit : t <= s

(***************************************************************************)
(* Get                                                                     *)
(***************************************************************************)
\* Get(key, &value): the status and the bytes appended to *value.  Reading
\* the value through a null kv (a mirror entry over an empty slot) is
\* undefined; it is reported as status "UB".
Get(vol, pm, key) ==
  LET ln == LeafSearch(vol, key)
  IN  IF ln = NULL THEN [status |-> "NOT_FOUND", value |-> <<>>]
      ELSE LET leafnode == vol.nodes[ln]
               slot == MatchSlot(leafnode, PearsonHash(key), key)
           IN  IF slot < 0 THEN [status |-> "NOT_FOUND", value |-> <<>>]
               ELSE LET kv == pm.leaves[leafnode.leaf].slots[slot]
                    IN  IF SlotEmpty(kv) THEN [status |-> "UB", value |-> <<>>]
                        ELSE [status |-> "OK", value |-> SlotVal(kv)]

\* A buffer that must be larger than the value.
FitsLimit_less(vs, limit) == vs < limit

\* "vs <= limit" of the size-limited Get, for a limit that is not negative.
FitsLimit(vs, limit) == vs <= limit

\* Get(limit, keybytes, valuebytes, key, value): the status, what is stored
\* to *valuebytes (-1: not written) and what is copied to value (<<>>: not
\* written).
GetLimit(vol, pm, limit, key) ==
  LET ln == LeafSearch(vol, key)
      none == [status |-> "NOT_FOUND", valuebytes |-> -1, value |-> <<>>]
  IN  IF ln = NULL THEN none
      ELSE LET leafnode == vol.nodes[ln]
               slot == MatchSlot(leafnode, PearsonHash(key), key)
           IN  IF slot < 0 THEN none
               ELSE LET kv == pm.leaves[leafnode.leaf].slots[slot]
                    IN  IF SlotEmpty(kv)
                          THEN [status |-> "UB", valuebytes |-> -1, value |-> <<>>]
                        ELSE IF FitsLimit(SlotValSize(kv), limit)
                          THEN [status |-> "OK", valuebytes |-> SlotValSize(kv),
                                value |-> SlotVal(kv)]
                          ELSE [status |-> "FAILED", valuebytes |-> SlotValSize(kv),
                                value |-> <<>>]

(***************************************************************************)
(* Enumeration: walks of the persistent list from kv_root->head            *)
(***************************************************************************)
\* The leaves in list order.  The walk is bounded by the number of leaves,
\* which is its length as long as the list has no cycle.
RECURSIVE ListFrom(_, _, _)
ListFrom(leaves, leaf, fuel) ==
  IF leaf = NULL \/ fuel = 0 THEN <<>>
  ELSE <<leaf>> \o ListFrom(leaves, leaves[leaf].next, fuel - 1)

LeafList(pm) == ListFrom(pm.leaves, pm.head, Len(pm.leaves))

\* The keys of one leaf in the order "for (slot = LEAF_KEYS; slot--;)" emits them.
RECURSIVE LeafKeysFrom(_, _)
LeafKeysFrom(leaf, slot) ==
  IF slot < 0 THEN <<>>
  ELSE (IF SlotEmpty(leaf.slots[slot]) THEN <<>> ELSE <<SlotKey(leaf.slots[slot])>>)
       \o LeafKeysFrom(leaf, slot - 1)

RECURSIVE KeysOfList(_, _)
KeysOfList(pm, list) ==
  IF list = <<>> THEN <<>>
  ELSE LeafKeysFrom(pm.leaves[Head(list)], LEAF_KEYS - 1) \o KeysOfList(pm, Tail(list))

ListAllKeys(pm) == KeysOfList(pm, LeafList(pm))

TotalNumKeys(pm) == Len(ListAllKeys(pm))

(***************************************************************************)
(* Persistent transactions.  The body of a transaction::exec_tx is a       *)
(* sequence of steps; a step either writes the pool (inside the            *)
(* transaction) or writes volatile memory (which no transaction covers).   *)
(***************************************************************************)
Step(op, node, leaf, other, slot, hash, key, val) ==
  [op |-> op, node |-> node, leaf |-> leaf, other |-> other, slot |-> slot,
   hash |-> hash, key |-> key, val |-> val]

\* The steps that go through the pool and so may throw
\* pmem::transaction_error or pmem::transaction_alloc_error.
PersistentOps == {"make_leaf", "set_head", "set_next", "slot_set", "slot_swap", "slot_clear"}

\* new_leaf->slots[slot].swap(leafnode->leaf->slots[slot])
SlotSwap(pm, st) ==
  [pm EXCEPT !.leaves[st.leaf].slots[st.slot] = pm.leaves[st.other].slots[st.slot],
             !.leaves[st.other].slots[st.slot] = pm.leaves[st.leaf].slots[st.slot]]

\* The effect of one step on the pool.
PmStep(pm, st) ==
  CASE st.op = "make_leaf" ->
         [pm EXCEPT !.leaves = Append(pm.leaves, NewLeaf)]
    [] st.op = "set_head" ->
         [pm EXCEPT !.head = st.leaf]
    [] st.op = "set_next" ->
         [pm EXCEPT !.leaves[st.leaf].next = st.other]
    [] st.op = "slot_set" ->
         [pm EXCEPT !.leaves[st.leaf].slots[st.slot] = SlotBlock(st.hash, st.key, st.val)]
    [] st.op = "slot_swap" -> SlotSwap(pm, st)
    [] st.op = "slot_clear" ->
         [pm EXCEPT !.leaves[st.leaf].slots[st.slot] = NullKV]
    [] OTHER -> pm

\* The effect of one step on volatile memory.
VolStep(vol, st) ==
  CASE st.op = "prealloc_pop" ->
         [vol EXCEPT !.nodes[st.node].leaf = st.leaf,
                     !.prealloc = SubSeq(vol.prealloc, 1, Len(vol.prealloc) - 1)]
    [] st.op = "node_leaf" ->
         [vol EXCEPT !.nodes[st.node].leaf = st.leaf]
    [] st.op = "mirror_set" ->
         IF vol.nodes[st.node].hashes[st.slot] = 0
           THEN [vol EXCEPT !.nodes[st.node].hashes[st.slot] = st.hash,
                            !.nodes[st.node].keys[st.slot] = st.key]
           ELSE vol
    [] st.op = "mirror_move" ->
         [vol EXCEPT !.nodes[st.node].hashes[st.slot] = vol.nodes[st.other].hashes[st.slot],
                     !.nodes[st.node].keys[st.slot] = vol.nodes[st.other].keys[st.slot],
                     !.nodes[st.other].hashes[st.slot] = 0,
                     !.nodes[st.other].keys[st.slot] = <<>>]
    [] OTHER -> vol

\* The first n steps applied in order.  (The step and the state before it
\* are the elements of singleton sets, so that each is computed once.)
RECURSIVE PmRun(_, _, _)
PmRun(pm, steps, n) ==
  IF n = 0 THEN pm
  ELSE CHOOSE after \in { PmStep(before, st) : before \in { PmRun(pm, steps, n - 1) },
                                                   st \in { steps[n] } } : TRUE

RECURSIVE VolRun(_, _, _)
VolRun(vol, steps, n) ==
  IF n = 0 THEN vol
  ELSE CHOOSE after \in { VolStep(before, st) : before \in { VolRun(vol, steps, n - 1) },
                                                    st \in { steps[n] } } : TRUE

\* The pool after transaction::exec_tx returns normally.
TxCommit(pm, steps) == PmRun(pm, steps, Len(steps))

\* A pool without an undo log: the writes of the n steps stay.
TxAbort_noUndo(pm, steps, n) == PmRun(pm, steps, n)

\* The pool after the transaction aborts (an exception leaves the body, or
\* the process dies and the pool is reopened) with n steps done: the undo
\* log restores every range the body wrote.
TxAbort(pm, steps, n) == pm

\* An abort with n steps done is one thrown by the next step if that step
\* goes through the pool, by the begin of the transaction (n = 0) or by its
\* commit (n = Len(steps)).
CanThrowAt(steps, n) ==
  \/ n = 0
  \/ n = Len(steps)
  \/ n \in 1 .. (Len(steps) - 1) /\ steps[n + 1].op \in PersistentOps

\* LeafFillSpecificSlot(leafnode, hash, key, value, slot)
LeafFillSpecificSlot(node, leaf, hash, key, value, slot) ==
  << Step("mirror_set", node, leaf, NULL, slot, hash, key, value),
     Step("slot_set", node, leaf, NULL, slot, hash, key, value) >>

\* A new leaf that is put at the head of the list wherever it comes from.
ObtainLeaf_relink(vol, pm, node) ==
  LET new_leaf == IF vol.prealloc /= <<>> THEN vol.prealloc[Len(vol.prealloc)]
                  ELSE Len(pm.leaves) + 1
  IN  << Step(IF vol.prealloc /= <<>> THEN "prealloc_pop" ELSE "make_leaf",
              node, new_leaf, NULL, 0, 0, <<>>, <<>>),
         Step("set_head", node, new_leaf, NULL, 0, 0, <<>>, <<>>),
         Step("set_next", node, new_leaf, pm.head, 0, 0, <<>>, <<>>),
         Step("node_leaf", node, new_leaf, NULL, 0, 0, <<>>, <<>>) >>

\* The new persistent leaf of a first insert or a split: the back of
\* leaves_prealloc, or a fresh leaf put at the head of the list.
ObtainLeaf(vol, pm, node) ==
  IF vol.prealloc /= <<>>
    THEN << Step("prealloc_pop", node, vol.prealloc[Len(vol.prealloc)], NULL, 0, 0, <<>>, <<>>) >>
    ELSE LET new_leaf == Len(pm.leaves) + 1
         IN  << Step("make_leaf", node, new_leaf, NULL, 0, 0, <<>>, <<>>),
                Step("set_head", node, new_leaf, NULL, 0, 0, <<>>, <<>>),
                Step("set_next", node, new_leaf, pm.head, 0, 0, <<>>, <<>>),
                Step("node_leaf", node, new_leaf, NULL, 0, 0, <<>>, <<>>) >>

\* The leaf the steps of ObtainLeaf give the new node.
ObtainedLeaf(vol, pm) ==
  IF vol.prealloc /= <<>> THEN vol.prealloc[Len(vol.prealloc)] ELSE Len(pm.leaves) + 1

(***************************************************************************)
(* InnerUpdateAfterSplit                                                   *)
(***************************************************************************)
\* A moved-from std::string (left empty by the move).
MovedFrom == <<>>

\* inner with split_key and new_node inserted in sorted order.
InnerInsert(inner, new_node, split_key) ==
  LET keycount == inner.keycount
      skip == { i \in 0 .. keycount :
                  \A j \in 0 .. (i - 1) : Compare(inner.keys[j], split_key) <= 0 }
      idx == CHOOSE i \in skip : \A j \in skip : j <= i
  IN  [inner EXCEPT
         !.keys = Array([i \in 0 .. INNER_KEYS |->
                     IF i = idx THEN split_key
                     ELSE IF i > idx /\ i <= keycount THEN inner.keys[i - 1]
                     ELSE inner.keys[i]], INNER_KEYS),
         !.children = Array([i \in 0 .. (INNER_KEYS + 1) |->
                     IF i = idx + 1 THEN new_node
                     ELSE IF i > idx + 1 /\ i <= keycount + 1 THEN inner.children[i - 1]
                     ELSE inner.children[i]], INNER_KEYS + 1),
         !.keycount = (keycount + 1) % 256]

\* An inner split that leaves the parent pointers of the moved children.
Reparent_none(ns, children, from, to, ni) == ns

\* children[i]->parent = ni for the children from .. to moved to ni
RECURSIVE Reparent(_, _, _, _, _)
Reparent(ns, children, from, to, ni) ==
  IF from > to THEN ns
  ELSE Reparent([ns EXCEPT ![children[from]].parent = ni], children, from + 1, to, ni)

\* The split of the inner node ns[p], which holds INNER_KEYS + 1 keys, for
\* INNER_KEYS = I; fresh is the new MVInnerNode() with the parent set.  The
\* upper keys and children move to the new node ni and the moved children
\* are reparented; new_split_key is read from the keys as the moves have
\* left them, and then the keycount of the node is cut.
InnerSplit(I, ns, p, fresh) ==
  LET inner == ns[p]
      keycount == inner.keycount
      UPPER == InnerKeysUpper(I)
      MIDPOINT == InnerKeysMidpoint(I)
      ni == Len(ns) + 1
      ninode == [fresh EXCEPT
          !.keys = Array([i \in 0 .. I |->
                      IF i + UPPER < keycount THEN inner.keys[i + UPPER] ELSE fresh.keys[i]], I),
          !.children = Array([i \in 0 .. (I + 1) |->
                      IF i + UPPER < keycount + 1
                        THEN inner.children[i + UPPER] ELSE fresh.children[i]], I + 1),
          !.keycount = MIDPOINT]
      moved == [inner EXCEPT
          !.keys = Array([i \in 0 .. I |->
                      IF i >= UPPER /\ i < keycount THEN MovedFrom ELSE inner.keys[i]], I),
          !.children = Array([i \in 0 .. (I + 1) |->
                      IF i >= UPPER /\ i < keycount + 1 THEN NULL ELSE inner.children[i]], I + 1)]
      lower == [moved EXCEPT !.keycount = MIDPOINT]
  IN  [nodes |-> Reparent(Append([ns EXCEPT ![p] = lower], ninode),
                          inner.children, UPPER, keycount, ni),
       ni |-> ni,
       new_split_key |-> moved.keys[MIDPOINT]]

RECURSIVE InnerUpdateAfterSplit(_, _, _, _)
InnerUpdateAfterSplit(vol, node, new_node, split_key) ==
  IF vol.nodes[node].parent = NULL
    THEN \* creating new top node
      LET top == Len(vol.nodes) + 1
          topnode == [NewInnerNode(NULL) EXCEPT
                        !.keycount = 1,
                        !.keys[0] = split_key,
                        !.children[0] = vol.top,
                        !.children[1] = new_node]
      IN  [vol EXCEPT
             !.nodes = Append([vol.nodes EXCEPT ![node].parent = top,
                                                ![new_node].parent = top], topnode),
             !.top = top]
    ELSE
      LET p == vol.nodes[node].parent
          inner == InnerInsert(vol.nodes[p], new_node, split_key)
          keycount == inner.keycount
      IN  IF keycount <= INNER_KEYS
            THEN [vol EXCEPT !.nodes[p] = inner]
            ELSE \* split inner node at the midpoint
              LET s == InnerSplit(INNER_KEYS, [vol.nodes EXCEPT ![p] = inner], p,
                                  NewInnerNode(inner.parent))
              IN  InnerUpdateAfterSplit([vol EXCEPT !.nodes = s.nodes], p, s.ni,
                                        s.new_split_key)

(***************************************************************************)
(* Put                                                                     *)
(***************************************************************************)
\* A fill that never looks for the key and takes the lowest empty slot.
FillSlotForKey_noMatch(leafnode, hash, key) ==
  LET empty == { s \in Slots : leafnode.hashes[s] = 0 }
  IN  IF empty = {} THEN -1 ELSE CHOOSE s \in empty : \A t \in empty : s <= t

\* The slot LeafFillSlotForKey updates: the matching slot if the descending
\* scan finds one, else the last empty slot it saw (the lowest); -1 if the
\* leaf has neither.
FillSlotForKey(leafnode, hash, key) ==
  LET match == MatchSlot(leafnode, hash, key)
      empty == { s \in Slots : leafnode.hashes[s] = 0 }
  IN  IF match >= 0 THEN match
      ELSE IF empty = {} THEN -1
      ELSE CHOOSE s \in empty : \A t \in empty : s <= t

\* The slot LeafFillEmptySlot fills: the highest slot whose mirror hash is
\* 0; -1 if there is none (and then it fills nothing).
EmptySlot(leafnode) ==
  LET empty == { s \in Slots : leafnode.hashes[s] = 0 }
  IN  IF empty = {} THEN -1 ELSE CHOOSE s \in empty : \A t \in empty : t <= s

\* std::sort with lhs.compare(rhs) < 0
RECURSIVE InsertSorted(_, _)
InsertSorted(seq, k) ==
  IF seq = <<>> THEN <<k>>
  ELSE IF Compare(k, Head(seq)) < 0 THEN <<k>> \o seq
  ELSE <<Head(seq)>> \o InsertSorted(Tail(seq), k)

RECURSIVE SortKeys(_)
SortKeys(seq) ==
  IF seq = <<>> THEN <<>> ELSE InsertSorted(SortKeys(Tail(seq)), Head(seq))

\* A split at the key one above the midpoint of the sorted keys.
SplitKey_upper(leafnode, key) ==
  SortKeys([i \in 1 .. (LEAF_KEYS + 1) |->
              IF i <= LEAF_KEYS THEN leafnode.keys[i - 1] ELSE key])[LEAF_KEYS_MIDPOINT + 2]

\* LeafSplitFull: keys[LEAF_KEYS_MIDPOINT] of the sorted LEAF_KEYS + 1 keys
SplitKey(leafnode, key) ==
  SortKeys([i \in 1 .. (LEAF_KEYS + 1) |->
              IF i <= LEAF_KEYS THEN leafnode.keys[i - 1] ELSE key])[LEAF_KEYS_MIDPOINT + 1]

\* LeafSplitFull: the swaps of the slots that sort above the split key,
\* from slot down to 0.
RECURSIVE SplitMoves(_, _, _, _, _, _)
SplitMoves(leafnode, ln, nn, new_leaf, split_key, slot) ==
  IF slot < 0 THEN <<>>
  ELSE (IF Compare(leafnode.keys[slot], split_key) > 0
          THEN << Step("slot_swap", nn, new_leaf, leafnode.leaf, slot, 0, <<>>, <<>>),
                  Step("mirror_move", nn, new_leaf, ln, slot, 0, <<>>, <<>>) >>
          ELSE <<>>)
       \o SplitMoves(leafnode, ln, nn, new_leaf, split_key, slot - 1)

\* What Put(key, value) is about to do in the state (vol, pm):
\*   kind     "first" (empty tree), "fill" (LeafFillSlotForKey) or "split"
\*   vol0     volatile memory with the new MVLeafNode (if any) allocated
\*   new_node the new MVLeafNode, leafnode the one LeafSearch found
\*   steps    the body of the one transaction of the Put
PutPlan(vol, pm, key, value) ==
  LET hash == PearsonHash(key)
      ln == LeafSearch(vol, key)
      nn == Len(vol.nodes) + 1
  IN  IF ln = NULL THEN
        LET vol0 == [vol EXCEPT !.nodes = Append(vol.nodes, NewLeafNode(NULL))]
        IN  [kind |-> "first", vol0 |-> vol0, leafnode |-> NULL, new_node |-> nn,
             split_key |-> <<>>, slot |-> 0,
             steps |-> ObtainLeaf(vol0, pm, nn)
                       \o LeafFillSpecificSlot(nn, ObtainedLeaf(vol0, pm), hash, key, value, 0)]
      ELSE IF FillSlotForKey(vol.nodes[ln], hash, key) >= 0 THEN
        LET slot == FillSlotForKey(vol.nodes[ln], hash, key)
        IN  [kind |-> "fill", vol0 |-> vol, leafnode |-> ln, new_node |-> NULL,
             split_key |-> <<>>, slot |-> slot,
             steps |-> LeafFillSpecificSlot(ln, vol.nodes[ln].leaf, hash, key, value, slot)]
      ELSE
        LET leafnode == vol.nodes[ln]
            split_key == SplitKey(leafnode, key)
            vol0 == [vol EXCEPT !.nodes = Append(vol.nodes, NewLeafNode(leafnode.parent))]
            new_leaf == ObtainedLeaf(vol0, pm)
            pre == ObtainLeaf(vol0, pm, nn)
                   \o SplitMoves(leafnode, ln, nn, new_leaf, split_key, LEAF_KEYS - 1)
            mid == VolRun(vol0, pre, Len(pre))
            target == IF Compare(key, split_key) > 0 THEN nn ELSE ln
            slot == EmptySlot(mid.nodes[target])
        IN  [kind |-> "split", vol0 |-> vol0, leafnode |-> ln, new_node |-> nn,
             split_key |-> split_key, slot |-> slot,
             steps |-> pre \o (IF slot < 0 THEN <<>>
                               ELSE LeafFillSpecificSlot(target, mid.nodes[target].leaf,
                                                         hash, key, value, slot))]

\* Volatile memory after a Put whose transaction committed.
PutDone(plan) ==
  LET after == VolRun(plan.vol0, plan.steps, Len(plan.steps))
  IN  CASE plan.kind = "first" -> [after EXCEPT !.top = plan.new_node]
        [] plan.kind = "fill" -> after
        [] plan.kind = "split" ->
             InnerUpdateAfterSplit(after, plan.leafnode, plan.new_node, plan.split_key)

\* Volatile memory after a Put whose transaction aborted with n steps done:
\* the new MVLeafNode dies with its unique_ptr, every other volatile write
\* of the body stays.
PutAborted(plan, n) ==
  LET after == VolRun(plan.vol0, plan.steps, n)
  IN  IF plan.new_node = NULL THEN after
      ELSE [after EXCEPT !.nodes = SubSeq(after.nodes, 1, Len(after.nodes) - 1)]

\* A make_persistent<MVLeaf> the pool has no room for throws
\* pmem::transaction_alloc_error.
NeedsLeaf(plan) == \E i \in 1 .. Len(plan.steps) : plan.steps[i].op = "make_leaf"

(***************************************************************************)
(* Remove                                                                  *)
(***************************************************************************)
\* What Remove(key) is about to do: hit says whether the scan finds the key
\* in the mirror; then vol0 is volatile memory with the mirror entry zeroed
\* (done before the transaction starts) and steps the body of the
\* transaction.
RemovePlan(vol, pm, key) ==
  LET ln == LeafSearch(vol, key)
      slot == IF ln = NULL THEN -1
              ELSE MatchSlot(vol.nodes[ln], PearsonHash(key), key)
  IN  IF slot < 0
        THEN [hit |-> FALSE, vol0 |-> vol, leafnode |-> ln, slot |-> slot, steps |-> <<>>]
        ELSE [hit |-> TRUE,
              vol0 |-> [vol EXCEPT !.nodes[ln].hashes[slot] = 0,
                                   !.nodes[ln].keys[slot] = <<>>],
              leafnode |-> ln, slot |-> slot,
              steps |-> << Step("slot_clear", ln, vol.nodes[ln].leaf, NULL, slot,
                                0, <<>>, <<>>) >>]

\* A Remove that clears the mirror and leaves the persistent slot alone.
RemoveDone_mirrorOnly(vol, pm, key) ==
  [status |-> "OK", vol |-> RemovePlan(vol, pm, key).vol0, pm |-> pm]

\* Remove(key) with its transaction committing: the status it returns and
\* the state it leaves.
RemoveDone(vol, pm, key) ==
  LET plan == RemovePlan(vol, pm, key)
  IN  [status |-> "OK", vol |-> plan.vol0, pm |-> TxCommit(pm, plan.steps)]

(***************************************************************************)
(* Recover                                                                 *)
(***************************************************************************)
\* The descriptor Recover builds for a persistent leaf: the mirror of every
\* non-empty slot whose stored hash is not 0.
RecoveredNode(pm, leaf) ==
  LET slots == pm.leaves[leaf].slots
      kept(s) == ~SlotEmpty(slots[s]) /\ SlotHash(slots[s]) /= 0
  IN  [NewLeafNode(NULL) EXCEPT
         !.leaf = leaf,
         !.hashes = Array([s \in Slots |->
                       IF SlotEmpty(slots[s]) THEN 0 ELSE SlotHash(slots[s])], LEAF_KEYS - 1),
         !.keys = Array([s \in Slots |-> IF kept(s) THEN SlotKey(slots[s]) ELSE <<>>],
                        LEAF_KEYS - 1)]

\* empty_leaf: no slot was recovered
RecoveredEmpty(leafnode) == \A s \in Slots : leafnode.hashes[s] = 0

\* max_key: the highest sorting recovered key of the leaf
MaxKey(leafnode) ==
  LET ks == { s \in Slots : leafnode.hashes[s] /= 0 }
      top == CHOOSE s \in ks : \A t \in ks : Compare(leafnode.keys[t], leafnode.keys[s]) <= 0
  IN  leafnode.keys[top]

\* The list left in the order of the walk.
InsertLeaf_unsorted(seq, r) == Append(seq, r)

\* leaves.sort by max_key (std::list::sort is stable)
RECURSIVE InsertLeaf(_, _)
InsertLeaf(seq, r) ==
  IF seq = <<>> THEN <<r>>
  ELSE IF Compare(r.max_key, Head(seq).max_key) < 0 THEN <<r>> \o seq
  ELSE <<Head(seq)>> \o InsertLeaf(Tail(seq), r)

RECURSIVE SortLeaves(_, _)
SortLeaves(seq, n) ==
  IF n = 0 THEN <<>> ELSE InsertLeaf(SortLeaves(seq, n - 1), seq[n])

\* The walk of the persistent list: the descriptors of the non-empty
\* leaves, in list order.
RECURSIVE RecoveredLeaves(_, _)
RecoveredLeaves(pm, list) ==
  IF list = <<>> THEN <<>>
  ELSE LET leafnode == RecoveredNode(pm, Head(list))
       IN  (IF RecoveredEmpty(leafnode) THEN <<>>
            ELSE << [leafnode |-> leafnode, max_key |-> MaxKey(leafnode)] >>)
           \o RecoveredLeaves(pm, Tail(list))

\* leaves_prealloc after the walk: the empty leaves, pushed in list order.
RECURSIVE RecoveredPrealloc(_, _)
RecoveredPrealloc(pm, list) ==
  IF list = <<>> THEN <<>>
  ELSE (IF RecoveredEmpty(RecoveredNode(pm, Head(list))) THEN <<Head(list)>> ELSE <<>>)
       \o RecoveredPrealloc(pm, Tail(list))

\* The loop that installs recovered leaf i after leaf i - 1 with the max
\* key of leaf i - 1 as split key.
RECURSIVE Rebuild(_, _, _)
Rebuild(vol, sorted, i) ==
  IF i > Len(sorted) THEN vol
  ELSE LET linked == [vol EXCEPT !.nodes[i].parent = vol.nodes[i - 1].parent]
       IN  Rebuild(InnerUpdateAfterSplit(linked, i - 1, i, sorted[i - 1].max_key),
                   sorted, i + 1)

\* The descriptors of the first n sorted leaves.
RECURSIVE LeafNodes(_, _)
LeafNodes(sorted, n) ==
  IF n = 0 THEN <<>> ELSE Append(LeafNodes(sorted, n - 1), sorted[n].leafnode)

\* Recover on a freshly constructed engine (no volatile state yet).
Recover(pm) ==
  LET list == LeafList(pm)
      found == RecoveredLeaves(pm, list)
      sorted == SortLeaves(found, Len(found))
      start == [nodes |-> LeafNodes(sorted, Len(sorted)),
                top |-> IF sorted = <<>> THEN NULL ELSE 1,
                prealloc |-> RecoveredPrealloc(pm, list)]
  IN  Rebuild(start, sorted, 2)

(***************************************************************************)
(* The engine on a new pool: MVTree(path, size, layout) creates the pool   *)
(* and runs Recover on its empty leaf list.                                *)
(***************************************************************************)
Last(op, kind, status) == [op |-> op, kind |-> kind, status |-> status]

\* The client threads, and a thread that is in no call.
Threads == 1 .. MaxThreads

\* The MVTree objects, the pool files, and the path that stands for "no
\* path" in pmpath.
Engines == 1 .. MaxEngines
PMPATH_NO_PATH == "nopath"
Paths == { "nopath", "/mnt/pmem/a", "/mnt/pmem/b" }
NoEngine == [state |-> "none", by |-> "", pmpath |-> "", pool |-> "", closes |-> 0]

\* No inner node has been split.
NoSplit == [I |-> 0, inner |-> NULL, ni |-> NULL, new_split_key |-> <<>>,
            before |-> <<>>, after |-> <<>>]

NoCall ==
  [name |-> "", key |-> <<>>, value |-> <<>>, kind |-> "", status |-> "",
   waited |-> FALSE, n |-> 0, plan |-> <<>>, pm0 |-> <<>>, pLeaf |-> NULL]

Init ==
  /\ pleaves = <<>>
  /\ head = NULL
  /\ nodes = <<>>
  /\ tree_top = NULL
  /\ leaves_prealloc = <<>>
  /\ live = [k \in Keys |-> NoValue]
  /\ last = Last("open", "", "OK")
  /\ removes = 0
  /\ reopens = 0
  /\ failures = 0
  /\ kv_root = 1
  /\ deleted = {}
  /\ pc = [t \in Threads |-> "idle"]
  /\ call = [t \in Threads |-> NoCall]
  /\ gate = [writer |-> NULL, readers |-> {}]
  /\ calls = 0
  /\ hashed = <<>>
  /\ below = <<>>
  /\ engine = [e \in Engines |-> NoEngine]
  /\ opened = [p \in Paths |-> "closed"]
  /\ innersplit = NoSplit

\* How the new leaf of a plan is obtained: "prealloc", "alloc" or "" (none).
LeafSource(plan) ==
  IF plan.new_node = NULL THEN ""
  ELSE IF plan.steps[1].op = "prealloc_pop" THEN "prealloc" ELSE "alloc"

\* "overwrite" for a fill that finds the key in the mirror.
PutKind(plan, key) ==
  IF plan.kind = "fill" /\ MatchSlot(nodes[plan.leafnode], PearsonHash(key), key) >= 0
    THEN "overwrite"
    ELSE plan.kind \o LeafSource(plan)

\* Put(key, value) returning OK
Put(key, value) ==
  LET plan == PutPlan(Vol, Pm, key, value)
      pm == TxCommit(Pm, plan.steps)
      vol == PutDone(plan)
  IN  /\ NeedsLeaf(plan) => Len(pleaves) < MaxLeaves
      /\ pleaves' = pm.leaves
      /\ head' = pm.head
      /\ nodes' = vol.nodes
      /\ tree_top' = vol.top
      /\ leaves_prealloc' = vol.prealloc
      /\ live' = [live EXCEPT ![key] = value]
      /\ last' = Last("put", PutKind(plan, key), "OK")
      /\ UNCHANGED <<removes, reopens, failures>>
      /\ UNCHANGED outside

\* Remove(key) returning OK
Remove(key) ==
  LET plan == RemovePlan(Vol, Pm, key)
      done == RemoveDone(Vol, Pm, key)
      pm == done.pm
      vol == done.vol
  IN  /\ plan.hit => removes < MaxRemoves
      /\ removes' = IF plan.hit THEN removes + 1 ELSE removes
      /\ pleaves' = pm.leaves
      /\ head' = pm.head
      /\ nodes' = vol.nodes
      /\ tree_top' = vol.top
      /\ leaves_prealloc' = vol.prealloc
      /\ live' = [live EXCEPT ![key] = NoValue]
      /\ last' = Last("remove", IF plan.hit THEN "hit" ELSE "miss", done.status)
      /\ UNCHANGED <<reopens, failures>>
      /\ UNCHANGED outside

\* The engine is destroyed and constructed again on the same pool: the
\* volatile state is gone and Recover rebuilds it from the leaf list.
Reopen ==
  LET vol == Recover(Pm)
  IN  /\ reopens < MaxReopens
      /\ reopens' = reopens + 1
      /\ nodes' = vol.nodes
      /\ tree_top' = vol.top
      /\ leaves_prealloc' = vol.prealloc
      /\ last' = Last("reopen", "", "OK")
      /\ UNCHANGED <<pleaves, head, live, removes, failures>>
      /\ UNCHANGED outside

Next ==
  \/ \E key \in Keys : \E value \in ValuesOf(key) : Put(key, value)
  \/ \E key \in Keys : Remove(key)
  \/ Reopen

\* The engine with every transaction committing.
Spec == Init /\ [][Next]_vars

(***************************************************************************)
(* Crashes.  The process dies inside an operation and the engine is        *)
(* constructed again on the pool: opening the pool aborts the transaction  *)
(* that was in flight, and Recover rebuilds the volatile state.            *)
(***************************************************************************)
\* The pools a crash inside a transaction can leave: the one of an abort
\* with n of the steps done, for every n ("pre"), and the one of the commit
\* ("post", the process dies before the operation returns).
CrashOutcomes(pm, steps) ==
  { [pm |-> TxAbort(pm, steps, n), status |-> "pre"] : n \in 0 .. Len(steps) }
    \cup { [pm |-> TxCommit(pm, steps), status |-> "post"] }

\* The process dies in Put(key, value).
CrashInPut(key, value) ==
  LET plan == PutPlan(Vol, Pm, key, value)
  IN  /\ reopens < MaxReopens
      /\ NeedsLeaf(plan) => Len(pleaves) < MaxLeaves
      /\ \E out \in CrashOutcomes(Pm, plan.steps) :
           LET vol == Recover(out.pm)
           IN  /\ pleaves' = out.pm.leaves
               /\ head' = out.pm.head
               /\ nodes' = vol.nodes
               /\ tree_top' = vol.top
               /\ leaves_prealloc' = vol.prealloc
               /\ live' = IF out.status = "post" THEN [live EXCEPT ![key] = value]
                          ELSE live
               /\ last' = Last("crash", PutKind(plan, key), out.status)
      /\ reopens' = reopens + 1
      /\ UNCHANGED <<removes, failures>>
      /\ UNCHANGED outside

\* The process dies in a Remove(key) that found the key.
CrashInRemove(key) ==
  LET plan == RemovePlan(Vol, Pm, key)
  IN  /\ reopens < MaxReopens
      /\ plan.hit
      /\ removes < MaxRemoves
      /\ \E out \in CrashOutcomes(Pm, plan.steps) :
           LET vol == Recover(out.pm)
           IN  /\ pleaves' = out.pm.leaves
               /\ head' = out.pm.head
               /\ nodes' = vol.nodes
               /\ tree_top' = vol.top
               /\ leaves_prealloc' = vol.prealloc
               /\ live' = IF out.status = "post" THEN [live EXCEPT ![key] = NoValue]
                          ELSE live
               /\ last' = Last("crash", "remove", out.status)
      /\ reopens' = reopens + 1
      /\ removes' = removes + 1
      /\ UNCHANGED failures
      /\ UNCHANGED outside

NextCrash ==
  \/ Next
  \/ \E key \in Keys : \E value \in ValuesOf(key) : CrashInPut(key, value)
  \/ \E key \in Keys : CrashInRemove(key)

\* The engine with crashes.
SpecCrash == Init /\ [][NextCrash]_vars

(***************************************************************************)
(* Storage failures.  A step of a transaction (or its begin or its commit) *)
(* throws pmem::transaction_error or pmem::transaction_alloc_error;        *)
(* exec_tx aborts the transaction and rethrows.                            *)
(***************************************************************************)
\* Put(key, value) whose transaction aborts with n steps done, for any n at
\* which a step can throw: the handlers of Put catch the exception and
\* return FAILED.
PutFail(key, value) ==
  LET plan == PutPlan(Vol, Pm, key, value)
      outcomes == { [pm |-> TxAbort(Pm, plan.steps, n), vol |-> PutAborted(plan, n)] :
                      n \in { m \in 0 .. Len(plan.steps) : CanThrowAt(plan.steps, m) } }
  IN  /\ failures < MaxFailures
      /\ \E out \in outcomes :
           /\ pleaves' = out.pm.leaves
           /\ head' = out.pm.head
           /\ nodes' = out.vol.nodes
           /\ tree_top' = out.vol.top
           /\ leaves_prealloc' = out.vol.prealloc
      /\ failures' = failures + 1
      /\ last' = Last("put", PutKind(plan, key), "FAILED")
      /\ UNCHANGED <<live, removes, reopens>>
      /\ UNCHANGED outside

\* Remove(key) of a key the scan finds, whose transaction aborts with n
\* steps done: the mirror entry was zeroed before the transaction began, and
\* Remove has no handler, so the exception leaves it ("THROWN").
RemoveFail(key) ==
  LET plan == RemovePlan(Vol, Pm, key)
      vol == plan.vol0
      pools == { TxAbort(Pm, plan.steps, n) :
                   n \in { m \in 0 .. Len(plan.steps) : CanThrowAt(plan.steps, m) } }
  IN  /\ failures < MaxFailures
      /\ plan.hit
      /\ \E pm \in pools :
           /\ pleaves' = pm.leaves
           /\ head' = pm.head
      /\ failures' = failures + 1
      /\ nodes' = vol.nodes
      /\ tree_top' = vol.top
      /\ leaves_prealloc' = vol.prealloc
      /\ last' = Last("remove", "hit", "THROWN")
      /\ UNCHANGED <<live, removes, reopens>>
      /\ UNCHANGED outside

\* The engine is followed up to the last failure the bound allows.
NextFail ==
  \/ failures < MaxFailures /\ Next
  \/ \E key \in Keys : \E value \in ValuesOf(key) : PutFail(key, value)
  \/ \E key \in Keys : RemoveFail(key)

\* The engine with storage failures.
SpecFail == Init /\ [][NextFail]_vars

(***************************************************************************)
(* Client threads.  Every public operation takes the engine's              *)
(* std::shared_mutex for its whole body (a std::unique_lock or a           *)
(* std::shared_lock that lives to the end of the scope); a thread runs its *)
(* operation one step at a time.                                           *)
(***************************************************************************)
\* The keys and the calls of the threads.
GateKeys == { <<15>>, <<97>>, <<1, 49>> }

Called(name, key, value) == [NoCall EXCEPT !.name = name, !.key = key, !.value = value]

Calls ==
  { Called("Put", k, <<1>>) : k \in GateKeys }
    \cup { Called("Remove", <<97>>, <<>>), Called("Get", <<97>>, <<>>),
           Called("TotalNumKeys", <<>>, <<>>) }

\* The lock an operation declares: std::unique_lock or std::shared_lock.
GateMode(name) ==
  IF name \in {"Put", "Remove", "Recover", "Free"} THEN "unique" ELSE "shared"

\* std::shared_mutex: lock() needs the mutex free, lock_shared() needs it
\* free of a writer.
CanLock(g, mode) ==
  IF mode = "unique" THEN g.writer = NULL /\ g.readers = {} ELSE g.writer = NULL

Locked(g, t, mode) ==
  IF mode = "unique" THEN [g EXCEPT !.writer = t]
  ELSE [g EXCEPT !.readers = g.readers \cup {t}]

\* The destructor of the lock object, run when the operation returns or an
\* exception leaves it.
GateAfterExit(g, t, status) ==
  [writer |-> IF g.writer = t THEN NULL ELSE g.writer, readers |-> g.readers \ {t}]

Holds(t) == gate.writer = t \/ t \in gate.readers

\* The process has died of a null dereference.
Dead == \E t \in Threads : pc[t] = "SIGSEGV"

\* Thread t calls an operation.  Free tests kv_root before it takes the
\* gate; every other operation takes the gate first.
Call(t, c) ==
  /\ ~Dead
  /\ pc[t] = "idle"
  /\ calls < MaxCalls
  /\ calls' = calls + 1
  /\ call' = [call EXCEPT ![t] = c]
  /\ pc' = [pc EXCEPT ![t] = IF c.name = "Free" THEN "free_check" ELSE "lock"]
  /\ UNCHANGED <<pleaves, head, nodes, tree_top, leaves_prealloc, live, last,
                 removes, reopens, failures, kv_root, deleted, gate>>
  /\ UNCHANGED apart

\* The constructor of the lock finds the mutex taken: the thread blocks.
Block(t) ==
  /\ ~Dead
  /\ pc[t] = "lock"
  /\ ~CanLock(gate, GateMode(call[t].name))
  /\ pc' = [pc EXCEPT ![t] = "blocked"]
  /\ call' = [call EXCEPT ![t].waited = TRUE]
  /\ UNCHANGED <<pleaves, head, nodes, tree_top, leaves_prealloc, live, last,
                 removes, reopens, failures, kv_root, deleted, gate, calls>>
  /\ UNCHANGED apart

\* The constructor of the lock returns with the mutex held.
Lock(t) ==
  /\ ~Dead
  /\ pc[t] \in {"lock", "blocked"}
  /\ CanLock(gate, GateMode(call[t].name))
  /\ gate' = Locked(gate, t, GateMode(call[t].name))
  /\ pc' = [pc EXCEPT ![t] = "body"]
  /\ UNCHANGED <<pleaves, head, nodes, tree_top, leaves_prealloc, live, last,
                 removes, reopens, failures, kv_root, deleted, call, calls>>
  /\ UNCHANGED apart

\* Whether the body of the call would go through the deleted root or a
\* deleted leaf (Free has run): the walks from kv_root->head and the first
\* insert read kv_root, a keyed operation reads or writes the leaf of the
\* descriptor it finds.
ThroughRoot(c) ==
  \/ c.name = "TotalNumKeys"
  \/ c.name = "Put" /\ LeafSearch(Vol, c.key) = NULL /\ leaves_prealloc = <<>>

ThroughLeaf(c) ==
  LET ln == LeafSearch(Vol, c.key)
  IN  \/ c.name = "Put" /\ (ln /= NULL \/ leaves_prealloc /= <<>>)
      \/ /\ c.name \in {"Get", "Remove"}
         /\ ln /= NULL
         /\ MatchSlot(nodes[ln], PearsonHash(c.key), c.key) >= 0

\* The body of an operation that runs after Free: a null kv_root is
\* dereferenced (the process dies), or a deleted leaf is read or written
\* (undefined; the call is followed no further than its return).
Undefined(t) ==
  /\ ~Dead
  /\ pc[t] = "body"
  /\ call[t].name /= "Free"
  /\ kv_root = NULL
  /\ ThroughRoot(call[t]) \/ ThroughLeaf(call[t])
  /\ IF ThroughRoot(call[t])
       THEN pc' = [pc EXCEPT ![t] = "SIGSEGV"] /\ call' = call
       ELSE /\ pc' = [pc EXCEPT ![t] = "unlock"]
            /\ call' = [call EXCEPT ![t].status = "UB"]
  /\ UNCHANGED <<pleaves, head, nodes, tree_top, leaves_prealloc, live, last,
                 removes, reopens, failures, kv_root, deleted, gate, calls>>
  /\ UNCHANGED apart

Defined(t) == kv_root /= NULL \/ ~(ThroughRoot(call[t]) \/ ThroughLeaf(call[t]))

\* The body of Get(key, &value).  The read through a null kv is undefined:
\* the load from address 0 ends the process, or a build that reads garbage
\* there returns.
GetBody(t) ==
  /\ ~Dead
  /\ pc[t] = "body"
  /\ call[t].name = "Get"
  /\ Defined(t)
  /\ \E got \in { Get(Vol, Pm, call[t].key) } :
       /\ call' = [call EXCEPT ![t].status = got.status, ![t].value = got.value]
       /\ \E to \in (IF got.status = "UB" THEN {"SIGSEGV", "unlock"} ELSE {"unlock"}) :
            pc' = [pc EXCEPT ![t] = to]
  /\ UNCHANGED <<pleaves, head, nodes, tree_top, leaves_prealloc, live, last,
                 removes, reopens, failures, kv_root, deleted, gate, calls>>
  /\ UNCHANGED apart

\* The body of TotalNumKeys(); the count is returned in n.
TotalNumKeysBody(t) ==
  /\ ~Dead
  /\ pc[t] = "body"
  /\ call[t].name = "TotalNumKeys"
  /\ Defined(t)
  /\ call' = [call EXCEPT ![t].status = "OK", ![t].n = TotalNumKeys(Pm)]
  /\ pc' = [pc EXCEPT ![t] = "unlock"]
  /\ UNCHANGED <<pleaves, head, nodes, tree_top, leaves_prealloc, live, last,
                 removes, reopens, failures, kv_root, deleted, gate, calls>>
  /\ UNCHANGED apart

\* Put up to the begin of its transaction: the search, and the new
\* MVLeafNode of a first insert or a split.
PutBody(t) ==
  /\ ~Dead
  /\ pc[t] = "body"
  /\ call[t].name = "Put"
  /\ Defined(t)
  /\ \E plan \in { PutPlan(Vol, Pm, call[t].key, call[t].value) } :
       /\ call' = [call EXCEPT ![t].plan = plan, ![t].pm0 = Pm, ![t].n = 0,
                               ![t].kind = PutKind(plan, call[t].key)]
       /\ nodes' = plan.vol0.nodes
  /\ pc' = [pc EXCEPT ![t] = "tx"]
  /\ UNCHANGED <<pleaves, head, tree_top, leaves_prealloc, live, last,
                 removes, reopens, failures, kv_root, deleted, gate, calls>>
  /\ UNCHANGED apart

\* Remove up to the begin of its transaction: the search, the scan, and the
\* mirror entry zeroed; a Remove that finds nothing returns.
RemoveBody(t) ==
  LET plan == RemovePlan(Vol, Pm, call[t].key)
  IN  /\ ~Dead
      /\ pc[t] = "body"
      /\ call[t].name = "Remove"
      /\ Defined(t)
      /\ call' = [call EXCEPT ![t].plan = plan, ![t].pm0 = Pm, ![t].n = 0,
                              ![t].kind = IF plan.hit THEN "hit" ELSE "miss",
                              ![t].status = IF plan.hit THEN "" ELSE "OK"]
      /\ nodes' = plan.vol0.nodes
      /\ pc' = [pc EXCEPT ![t] = IF plan.hit THEN "tx" ELSE "unlock"]
      /\ UNCHANGED <<pleaves, head, tree_top, leaves_prealloc, live, last,
                     removes, reopens, failures, kv_root, deleted, gate, calls>>
      /\ UNCHANGED apart

\* One step of the body of the transaction.
TxStep(t) ==
  /\ ~Dead
  /\ pc[t] = "tx"
  /\ call[t].n < Len(call[t].plan.steps)
  /\ LET st == call[t].plan.steps[call[t].n + 1]
         pm == PmStep(Pm, st)
         vol == VolStep(Vol, st)
     IN  /\ st.op = "make_leaf" => Len(pleaves) < MaxLeaves
         /\ pleaves' = pm.leaves
         /\ head' = pm.head
         /\ nodes' = vol.nodes
         /\ tree_top' = vol.top
         /\ leaves_prealloc' = vol.prealloc
  /\ call' = [call EXCEPT ![t].n = call[t].n + 1]
  /\ UNCHANGED <<live, last, removes, reopens, failures, kv_root, deleted,
                 pc, gate, calls>>
  /\ UNCHANGED apart

\* The transaction commits.  Remove has nothing left to do; Put has its
\* volatile update left.
TxEnd(t) ==
  /\ ~Dead
  /\ pc[t] = "tx"
  /\ call[t].n = Len(call[t].plan.steps)
  /\ live' = [live EXCEPT ![call[t].key] =
                IF call[t].name = "Put" THEN call[t].value ELSE NoValue]
  /\ call' = [call EXCEPT ![t].status = "OK"]
  /\ pc' = [pc EXCEPT ![t] = IF call[t].name = "Put" THEN "after" ELSE "unlock"]
  /\ UNCHANGED <<pleaves, head, nodes, tree_top, leaves_prealloc, last,
                 removes, reopens, failures, kv_root, deleted, gate, calls>>
  /\ UNCHANGED apart

\* Put after its transaction: tree_top = move(new_node) of a first insert,
\* InnerUpdateAfterSplit of a split.
PutAfter(t) ==
  LET vol == PutDone(call[t].plan)
  IN  /\ ~Dead
      /\ pc[t] = "after"
      /\ nodes' = vol.nodes
      /\ tree_top' = vol.top
      /\ leaves_prealloc' = vol.prealloc
      /\ pc' = [pc EXCEPT ![t] = "unlock"]
      /\ UNCHANGED <<pleaves, head, live, last, removes, reopens, failures,
                     kv_root, deleted, call, gate, calls>>
      /\ UNCHANGED apart

\* A step of the transaction (or its begin or its commit) throws: the pool
\* is rolled back; Put catches and returns FAILED, the exception leaves
\* Remove.  A make_persistent the pool has no room for always throws.
TxThrow(t) ==
  LET c == call[t]
      pm == TxAbort(c.pm0, c.plan.steps, c.n)
      vol == IF c.name = "Put" THEN PutAborted(c.plan, c.n) ELSE Vol
      full == /\ c.n < Len(c.plan.steps)
              /\ c.plan.steps[c.n + 1].op = "make_leaf"
              /\ Len(pleaves) >= MaxLeaves
  IN  /\ ~Dead
      /\ pc[t] = "tx"
      /\ CanThrowAt(c.plan.steps, c.n)
      /\ failures < MaxFailures \/ full
      /\ failures' = IF full THEN failures ELSE failures + 1
      /\ pleaves' = pm.leaves
      /\ head' = pm.head
      /\ nodes' = vol.nodes
      /\ tree_top' = vol.top
      /\ leaves_prealloc' = vol.prealloc
      /\ call' = [call EXCEPT ![t].status = IF c.name = "Put" THEN "FAILED" ELSE "THROWN"]
      /\ pc' = [pc EXCEPT ![t] = "unlock"]
      /\ UNCHANGED <<live, last, removes, reopens, kv_root, deleted, gate, calls>>
      /\ UNCHANGED apart

\* The operation returns (or the exception leaves it): the lock object is
\* destroyed.
Return(t) ==
  /\ ~Dead
  /\ pc[t] = "unlock"
  /\ gate' = GateAfterExit(gate, t, call[t].status)
  /\ last' = Last(call[t].name, call[t].kind, call[t].status)
  /\ call' = [call EXCEPT ![t] = NoCall]
  /\ pc' = [pc EXCEPT ![t] = "idle"]
  /\ UNCHANGED <<pleaves, head, nodes, tree_top, leaves_prealloc, live,
                 removes, reopens, failures, kv_root, deleted, calls>>
  /\ UNCHANGED apart

\* Free: "if (kv_root != nullptr)", read before the gate is taken.
FreeCheck(t) ==
  /\ ~Dead
  /\ pc[t] = "free_check"
  /\ IF kv_root /= NULL
       THEN pc' = [pc EXCEPT ![t] = "lock"] /\ UNCHANGED <<call, last>>
       ELSE /\ pc' = [pc EXCEPT ![t] = "idle"]
            /\ call' = [call EXCEPT ![t] = NoCall]
            /\ last' = Last("Free", "", "")
  /\ UNCHANGED <<pleaves, head, nodes, tree_top, leaves_prealloc, live,
                 removes, reopens, failures, kv_root, deleted, gate, calls>>
  /\ UNCHANGED apart

\* Free: "pLeaf = kv_root->head" with the gate held; a null kv_root is
\* dereferenced.
FreeHead(t) ==
  /\ ~Dead
  /\ pc[t] = "body"
  /\ call[t].name = "Free"
  /\ IF kv_root = NULL
       THEN pc' = [pc EXCEPT ![t] = "SIGSEGV"] /\ call' = call
       ELSE /\ pc' = [pc EXCEPT ![t] = "free_leaf"]
            /\ call' = [call EXCEPT ![t].pLeaf = head]
  /\ UNCHANGED <<pleaves, head, nodes, tree_top, leaves_prealloc, live, last,
                 removes, reopens, failures, kv_root, deleted, gate, calls>>
  /\ UNCHANGED apart

\* Free: one turn of the loop deletes a leaf; after the loop the root is
\* deleted, and pmemobj_free leaves kv_root null.
FreeLeaf(t) ==
  /\ ~Dead
  /\ pc[t] = "free_leaf"
  /\ IF call[t].pLeaf /= NULL
       THEN /\ deleted' = deleted \cup {call[t].pLeaf}
            /\ call' = [call EXCEPT ![t].pLeaf = pleaves[call[t].pLeaf].next]
            /\ UNCHANGED <<kv_root, pc>>
       ELSE /\ kv_root' = NULL
            /\ call' = [call EXCEPT ![t].status = "OK"]
            /\ pc' = [pc EXCEPT ![t] = "unlock"]
            /\ UNCHANGED deleted
  /\ UNCHANGED <<pleaves, head, nodes, tree_top, leaves_prealloc, live, last,
                 removes, reopens, failures, gate, calls>>
  /\ UNCHANGED apart

\* The steps of thread t inside an operation.
Run(t) ==
  \/ GetBody(t)
  \/ TotalNumKeysBody(t)
  \/ PutBody(t)
  \/ RemoveBody(t)
  \/ TxStep(t)
  \/ TxEnd(t)
  \/ PutAfter(t)
  \/ Return(t)

NextGate ==
  \E t \in Threads :
    \/ \E c \in Calls \cup { Called("Free", <<>>, <<>>) } : Call(t, c)
    \/ Block(t)
    \/ Lock(t)
    \/ Run(t)
    \/ Undefined(t)
    \/ FreeCheck(t)
    \/ FreeHead(t)
    \/ FreeLeaf(t)

\* The engine under threads that call Put, Remove, Get, TotalNumKeys and
\* Free, with every transaction committing.
SpecGate == Init /\ [][NextGate]_vars

\* Thread t has a next step inside its operation: the body once the gate is
\* held, the next step of the transaction (or its abort), the return.
CanStep(t) ==
  /\ ~Dead
  /\ \/ pc[t] \in {"tx", "after", "unlock"}
     \/ pc[t] = "body" /\ call[t].name /= "Free" /\ Defined(t)

NextGateFair ==
  \E t \in Threads :
    \/ \E c \in Calls : Call(t, c)
    \/ Block(t)
    \/ Lock(t)
    \/ Run(t)
    \/ TxThrow(t)

\* The engine under threads that call Put, Remove, Get and TotalNumKeys,
\* with transactions that may abort, under a fair scheduler: a thread that
\* can take the gate, or the next step of its operation, eventually does.
\* The second condition is WF_vars(Run(t) \/ TxThrow(t)) with its ENABLED
\* written out as CanStep(t).
SpecGateFair ==
  /\ Init
  /\ [][NextGateFair]_vars
  /\ \A t \in Threads : WF_vars(Lock(t))
  /\ \A t \in Threads : []<>(~CanStep(t)) \/ []<><<Run(t) \/ TxThrow(t)>>_vars

(***************************************************************************)
(* PearsonHash calls                                                       *)
(***************************************************************************)
\* The byte strings of length 0 .. MaxHashLen over HashBytes.
HashInputs == UNION { [1 .. n -> HashBytes] : n \in 0 .. MaxHashLen }

\* One call PearsonHash(data, size): the result is recorded, and so is what
\* the call has read in front of the table.
HashCall(data) ==
  /\ Len(hashed) < MaxHashes
  /\ \E r \in PearsonHashIn(below, data) :
       /\ hashed' = Append(hashed, [data |-> data, hash |-> r.value])
       /\ below' = r.mem
  /\ UNCHANGED <<pleaves, head, nodes, tree_top, leaves_prealloc, live, last,
                 removes, reopens, failures, kv_root, deleted, pc, call, gate,
                 calls, engine, opened, innersplit>>

NextHash == \E data \in HashInputs : HashCall(data)

SpecHash == Init /\ [][NextHash]_vars

(***************************************************************************)
(* MVTree objects and their pools                                          *)
(***************************************************************************)
\* What constructing and destroying MVTree objects leaves alone here: the
\* state of the engine itself.
inside == <<pleaves, head, nodes, tree_top, leaves_prealloc, live, last,
            removes, reopens, failures, kv_root, deleted, pc, call, gate,
            calls, hashed, below, innersplit>>

\* The application opens a pool itself (pmemobj_open), to hand the handle
\* to engines.
AppOpen(p) ==
  /\ opened[p] = "closed"
  /\ opened' = [opened EXCEPT ![p] = "app"]
  /\ UNCHANGED <<engine, inside>>

\* The application closes its handle once no engine uses it.
AppClose(p) ==
  /\ opened[p] = "app"
  /\ \A e \in Engines : ~(engine[e].state = "alive" /\ engine[e].pool = p)
  /\ opened' = [opened EXCEPT ![p] = "closed"]
  /\ UNCHANGED <<engine, inside>>

\* MVTree(path, size, layout): creates or opens the pool at path.
ConstructByPath(e, path) ==
  /\ engine[e].state = "none"
  /\ opened[path] = "closed"
  /\ opened' = [opened EXCEPT ![path] = "engine"]
  /\ engine' = [engine EXCEPT ![e] = [state |-> "alive", by |-> "path", pmpath |-> path,
                                      pool |-> path, closes |-> 0]]
  /\ UNCHANGED inside

\* MVTree(pop) and MVTree(pop, oid) around the handle of a pool the
\* application has opened.
ConstructByPop(e, p, by) ==
  /\ engine[e].state = "none"
  /\ opened[p] = "app"
  /\ engine' = [engine EXCEPT ![e] = [state |-> "alive", by |-> by, pmpath |-> PMPATH_NO_PATH,
                                      pool |-> p, closes |-> 0]]
  /\ UNCHANGED <<opened, inside>>

\* A destructor that closes the pool of an engine constructed by path.
Closes_byPath(e) == engine[e].by = "path"

\* ~MVTree: "if (PMPATH_NO_PATH != pmpath) pmpool.close()"
Closes(e) == PMPATH_NO_PATH /= engine[e].pmpath

Destroy(e) ==
  /\ engine[e].state = "alive"
  /\ IF Closes(e)
       THEN /\ engine' = [engine EXCEPT ![e].state = "destroyed", ![e].closes = @ + 1]
            /\ opened' = [opened EXCEPT ![engine[e].pool] = "closed"]
       ELSE /\ engine' = [engine EXCEPT ![e].state = "destroyed"]
            /\ UNCHANGED opened
  /\ UNCHANGED inside

NextPool ==
  \/ \E p \in Paths : AppOpen(p) \/ AppClose(p)
  \/ \E e \in Engines, p \in Paths : ConstructByPath(e, p)
  \/ \E e \in Engines, p \in Paths, by \in {"pop", "pop_oid"} : ConstructByPop(e, p, by)
  \/ \E e \in Engines : Destroy(e)

SpecPool == Init /\ [][NextPool]_vars

(***************************************************************************)
(* Free                                                                    *)
(***************************************************************************)
\* Free() of a single client: every persistent leaf of the list and the
\* root are deleted; the volatile state is not touched.
Free ==
  /\ kv_root /= NULL
  /\ deleted' = deleted \cup { LeafList(Pm)[i] : i \in 1 .. Len(LeafList(Pm)) }
  /\ kv_root' = NULL
  /\ last' = Last("free", "", "OK")
  /\ UNCHANGED <<pleaves, head, nodes, tree_top, leaves_prealloc, live,
                 removes, reopens, failures, pc, call, gate, calls>>
  /\ UNCHANGED apart

NextFree ==
  \/ kv_root /= NULL /\ Next
  \/ Free

\* The engine of Spec until its client calls Free.
SpecFree == Init /\ [][NextFree]_vars

(***************************************************************************)
(* The split of an inner node, for any INNER_KEYS                          *)
(***************************************************************************)
\* The values of INNER_KEYS the split is run for are 1 .. MaxInnerKeys.
MaxInnerKeys == 5

\* The separators of the overflowing nodes: non-empty byte strings.
Separators == { <<1>>, <<1, 49>>, <<15>>, <<15, 0>>, <<97>>, <<128>>, <<255>> }

\* The keys of a set in the order of std::string::compare.
RECURSIVE SortSet(_)
SortSet(S) ==
  IF S = {} THEN <<>>
  ELSE LET k == CHOOSE k \in S : TRUE IN InsertSorted(SortSet(S \ {k}), k)

\* new MVInnerNode() / new MVLeafNode() where the arrays of a node are
\* keys[I + 1] and children[I + 2].
NodeFor(I, is_leaf, parent) ==
  [is_leaf |-> is_leaf, parent |-> parent, keycount |-> 0,
   keys |-> Array([i \in 0 .. I |-> <<>>], I),
   children |-> Array([i \in 0 .. (I + 1) |-> NULL], I + 1)]

\* The heap in which the sorted insert has just left the top inner node
\* (node 1) with the I + 1 separators ks over its I + 2 children (nodes
\* 2 .. I + 3).
RECURSIVE Overflowing(_, _, _)
Overflowing(I, ks, n) ==
  IF n = 1
    THEN << [NodeFor(I, FALSE, NULL) EXCEPT
               !.keycount = I + 1,
               !.keys = Array([i \in 0 .. I |-> ks[i + 1]], I),
               !.children = Array([i \in 0 .. (I + 1) |-> i + 2], I + 1)] >>
    ELSE Append(Overflowing(I, ks, n - 1), NodeFor(I, TRUE, 1))

\* The split of InnerUpdateAfterSplit on that node, in a build with
\* INNER_KEYS = I.
SplitInner(I, S) ==
  /\ Cardinality(S) = I + 1
  /\ \E before \in { Overflowing(I, SortSet(S), I + 3) } :
       \E s \in { InnerSplit(I, before, 1, NodeFor(I, FALSE, before[1].parent)) } :
         innersplit' = [I |-> I, inner |-> 1, ni |-> s.ni,
                        new_split_key |-> s.new_split_key,
                        before |-> before, after |-> s.nodes]
  /\ UNCHANGED <<pleaves, head, nodes, tree_top, leaves_prealloc, live, last,
                 removes, reopens, failures, kv_root, deleted, pc, call, gate,
                 calls, hashed, below, engine, opened>>

NextSplit == \E I \in 1 .. MaxInnerKeys, S \in SUBSET Separators : SplitInner(I, S)

SpecSplit == Init /\ [][NextSplit]_vars

(***************************************************************************)
(* Properties                                                              *)
(***************************************************************************)
LiveKeys == { k \in Keys : live[k] /= NoValue }

\* What the client expects of Get(key) from what it has written.
Expected(key) ==
  IF live[key] = NoValue THEN [status |-> "NOT_FOUND", value |-> <<>>]
  ELSE [status |-> "OK", value |-> live[key]]

\* The number of inner nodes between the top and a leaf descriptor.
Height ==
  IF tree_top = NULL THEN 0
  ELSE IF nodes[tree_top].is_leaf THEN 1
  ELSE IF nodes[nodes[tree_top].children[0]].is_leaf THEN 2
  ELSE 3

\* C1: with every transaction committing, Get(k) returns OK and the value
\* of the most recent Put(k, v), and NOT_FOUND if the most recent operation
\* on k was a Remove or k was never written -- across leaf splits,
\* inner-node splits and keys whose Pearson hashes collide.
C1_GetReturnsLastWrite == \A k \in Keys : Get(Vol, Pm, k) = Expected(k)

\* An inner node has split (the tree has two levels of inner nodes), two
\* live keys with the same hash share a leaf, and a key has been removed.
C1_Witness ==
  /\ Height = 3
  /\ removes = 1
  /\ \E k1, k2 \in LiveKeys :
       /\ k1 /= k2
       /\ PearsonHash(k1) = PearsonHash(k2)
       /\ LeafSearch(Vol, k1) = LeafSearch(Vol, k2)
       /\ Get(Vol, Pm, k1).status = "OK"
  /\ \E k \in Keys : live[k] = NoValue /\ Get(Vol, Pm, k).status = "NOT_FOUND"

\* The keys of a sequence, and whether one occurs twice.
KeySet(seq) == { seq[i] : i \in 1 .. Len(seq) }

NoDuplicates(seq) == \A i, j \in 1 .. Len(seq) : seq[i] = seq[j] => i = j

C9_RemoveIdempotent ==
  \A k \in Keys :
    LET once == RemoveDone(Vol, Pm, k)
        twice == RemoveDone(once.vol, once.pm, k)
    IN  /\ once.status = "OK"
        /\ twice = once
        /\ live[k] = NoValue => (once.vol = Vol /\ once.pm = Pm)

\* A Remove has just missed in a tree that has split and from which a key
\* was removed before, and a Remove of a live key would clear its slot.
C9_Witness ==
  /\ last.op = "remove"
  /\ last.kind = "miss"
  /\ removes = 1
  /\ Height >= 2
  /\ \E k \in LiveKeys : RemoveDone(Vol, Pm, k).pm /= Pm

\* C10: the size-limited Get returns FAILED exactly when the key is live and
\* the size of its value exceeds the limit, and then the size is written to
\* the caller and the buffer is not; it returns OK with the value and its
\* size when the size is at most the limit, and NOT_FOUND when the key is
\* not live.
C10_GetLimit ==
  \A k \in Keys : \A limit \in 0 .. MaxLimit :
    LET got == GetLimit(Vol, Pm, limit, k)
    IN  /\ got.status = "FAILED" <=> (live[k] /= NoValue /\ Len(live[k]) > limit)
        /\ got.status = "FAILED" => (got.valuebytes = Len(live[k]) /\ got.value = <<>>)
        /\ (live[k] /= NoValue /\ Len(live[k]) <= limit) =>
              got = [status |-> "OK", valuebytes |-> Len(live[k]), value |-> live[k]]
        /\ live[k] = NoValue =>
              got = [status |-> "NOT_FOUND", valuebytes |-> -1, value |-> <<>>]

\* In a tree that has split, the same live value is too large for one limit
\* and fits the next (the limit equals its size), and some key is not live.
C10_Witness ==
  /\ Height >= 2
  /\ \E k \in LiveKeys :
       /\ GetLimit(Vol, Pm, Len(live[k]) - 1, k).status = "FAILED"
       /\ GetLimit(Vol, Pm, Len(live[k]), k).status = "OK"
       /\ Len(live[k]) = MaxLimit
  /\ \E k \in Keys : GetLimit(Vol, Pm, MaxLimit, k).status = "NOT_FOUND"

\* The keys for which Get answers differently in the next state.
Changed == { k \in Keys : Get(Vol', Pm', k) /= Get(Vol, Pm, k) }

RECURSIVE LeafNodesUnder(_, _)
LeafNodesUnder(ns, node) ==
  IF node = NULL THEN {}
  ELSE IF ns[node].is_leaf THEN {node}
  ELSE UNION { LeafNodesUnder(ns, ns[node].children[i]) : i \in 0 .. ns[node].keycount }

\* Slot s of descriptor n has a mirror entry and an empty persistent slot.
Phantom(n, s) ==
  /\ nodes[n].hashes[s] /= 0
  /\ SlotEmpty(pleaves[nodes[n].leaf].slots[s])

\* C4: a Put is never partially applied: after a Put into an empty slot
\* whose transaction aborted, either the persistent slot is set and the
\* mirror hash and key are updated, or neither is (the mirror hash of the
\* slot is still 0 and its mirror key still empty).
C4_PutNeverPartial ==
  (last.op = "put" /\ last.status = "FAILED" /\ last.kind = "fill") =>
    \A n \in LeafNodesUnder(nodes, tree_top) : \A s \in Slots :
      /\ ~Phantom(n, s)
      /\ SlotEmpty(pleaves[nodes[n].leaf].slots[s]) => nodes[n].keys[s] = <<>>

\* A Put into an empty slot has returned FAILED and left the hash and the
\* key of a key that is not in the pool in the mirror; Get of that key finds
\* the mirror entry and reads the null slot.
C4_Witness ==
  /\ last = Last("put", "fill", "FAILED")
  /\ \E n \in LeafNodesUnder(nodes, tree_top) : \E s \in Slots :
       /\ Phantom(n, s)
       /\ live[nodes[n].keys[s]] = NoValue
       /\ Get(Vol, Pm, nodes[n].keys[s]).status = "UB"

\* C5: a Put that needs a split and whose transaction aborts returns FAILED
\* and leaves the volatile state (routing tree, mirror hashes and keys of
\* every descriptor, leaves_prealloc) as it was before the call, so that
\* Get still returns every key that was live with its value.
C5_FailedSplitKeepsVolatile ==
  [][(last'.op = "put" /\ last'.kind \in {"splitalloc", "splitprealloc"}
        /\ failures' = failures + 1) =>
       /\ last'.status = "FAILED"
       /\ nodes' = nodes
       /\ tree_top' = tree_top
       /\ leaves_prealloc' = leaves_prealloc
       /\ \A k \in LiveKeys : Get(Vol', Pm', k) = Expected(k)]_vars

\* A Put that split a leaf has returned FAILED, and a key that is live and
\* still in the pool is no longer found by Get.
C5_Witness ==
  /\ last.op = "put"
  /\ last.kind \in {"splitalloc", "splitprealloc"}
  /\ last.status = "FAILED"
  /\ \E k \in LiveKeys :
       /\ k \in KeySet(ListAllKeys(Pm))
       /\ Get(Vol, Pm, k).status = "NOT_FOUND"

\* C6: when the transaction of a Remove of a present key aborts, Remove
\* returns FAILED and the volatile state is not mutated: the mirror hash and
\* key of the slot are unchanged and Get of the key still returns its value.
C6_FailedRemoveKeepsVolatile ==
  [][(last'.op = "remove" /\ failures' = failures + 1) =>
       /\ last'.status = "FAILED"
       /\ nodes' = nodes
       /\ \A k \in Keys : Get(Vol', Pm', k) = Get(Vol, Pm, k)]_vars

\* The exception of an aborted Remove has left Remove, and the key it was
\* to remove is still in the pool and no longer found by Get.
C6_Witness ==
  /\ last = Last("remove", "hit", "THROWN")
  /\ \E k \in LiveKeys :
       /\ k \in KeySet(ListAllKeys(Pm))
       /\ Get(Vol, Pm, k).status = "NOT_FOUND"

\* Thread t is inside the gate: between the constructor and the destructor
\* of its lock object.
InGate(t) == pc[t] \in {"body", "tx", "after", "unlock", "free_leaf", "SIGSEGV"}

\* Thread t is inside an operation's work on the engine's state: from the
\* first read of that state to the return.  Free reads kv_root before it
\* takes the gate.
Running(t) ==
  \/ InGate(t)
  \/ call[t].name = "Free" /\ pc[t] \in {"lock", "blocked"}

\* Thread t is a writer between its first and its last mutation.
Mutating(t) == pc[t] \in {"tx", "after", "free_leaf"}

\* C11: under any interleaving of threads, writers (Put, Remove, Free) are
\* mutually exclusive with each other and with every reader (Get,
\* TotalNumKeys): a thread inside the gate holds it in the mode of its
\* operation, no other thread is inside an operation's work on the engine's
\* state while a writer is between its first and last mutation, no reader
\* reads then, and a Get returns what the last committed write left.
C11_WritersExclusive ==
  /\ \A t \in Threads :
       InGate(t) => IF GateMode(call[t].name) = "unique"
                      THEN gate.writer = t /\ gate.readers = {}
                      ELSE t \in gate.readers /\ gate.writer = NULL
  /\ \A t, u \in Threads : (t /= u /\ Mutating(t)) => ~Running(u)
  /\ \A t, u \in Threads :
       (pc[t] = "body" /\ GateMode(call[t].name) = "shared") => ~Mutating(u)
  /\ \A t \in Threads :
       (pc[t] = "unlock" /\ call[t].name = "Get" /\ call[t].status /= "UB") =>
          [status |-> call[t].status, value |-> call[t].value] = Expected(call[t].key)

\* Two threads called Free, both read a kv_root that was not null, the
\* first deleted the leaves and the root, and the second, which had to wait
\* for the gate, read kv_root->head through the null kv_root.
C11_Witness ==
  \E t \in Threads :
    /\ pc[t] = "SIGSEGV"
    /\ call[t].name = "Free"
    /\ call[t].waited
    /\ kv_root = NULL
    /\ deleted /= {}

\* C12: every operation that takes the gate runs to completion and releases
\* it on every exit path (normal return, FAILED, and the exception of an
\* aborted transaction leaving Remove): a thread in no operation holds
\* nothing, a thread that holds the gate eventually holds it no longer, and
\* under fair scheduling a thread waiting for the gate eventually has it.
C12_GateReleased ==
  /\ [](\A t \in Threads : pc[t] = "idle" => ~Holds(t))
  /\ \A t \in Threads : Holds(t) ~> ~Holds(t)
  /\ \A t \in Threads : (pc[t] \in {"lock", "blocked"}) ~> Holds(t)

\* The exception of an aborted transaction has left Remove, and a thread
\* that was blocked on the gate meanwhile now holds it.
C12_Witness ==
  /\ last = Last("Remove", "hit", "THROWN")
  /\ \E t \in Threads : call[t].waited /\ Holds(t)

C14_PoolClosedOnce ==
  \A e \in Engines :
    engine[e].state = "destroyed" =>
      engine[e].closes = (IF engine[e].by = "path" THEN 1 ELSE 0)

\* An engine constructed by the path "nopath" is gone and its pool is
\* still open.
C14_Witness ==
  \E e \in Engines :
    /\ engine[e].state = "destroyed"
    /\ engine[e].by = "path"
    /\ engine[e].pmpath = "nopath"
    /\ engine[e].closes = 0
    /\ opened["nopath"] = "engine"

\* The depths of the leaf descriptors under node, node being at depth d.
RECURSIVE LeafDepths(_, _, _)
LeafDepths(ns, node, d) ==
  IF ns[node].is_leaf THEN {d}
  ELSE UNION { LeafDepths(ns, ns[node].children[i], d + 1) : i \in 0 .. ns[node].keycount }

\* The inner nodes the routing tree reaches from node.
RECURSIVE InnerNodesUnder(_, _)
InnerNodesUnder(ns, node) ==
  IF node = NULL \/ ns[node].is_leaf THEN {}
  ELSE {node} \cup UNION { InnerNodesUnder(ns, ns[node].children[i]) : i \in 0 .. ns[node].keycount }

(***************************************************************************)
(* C15: after any sequence of Put, Remove and recovery every path from the *)
(* top to a leaf descriptor has the same length, the parent pointer of the *)
(* top is null, and the parent pointer of every other node is the inner    *)
(* node that holds it as a child.                                          *)
(***************************************************************************)
C15_HeightAndParents ==
  tree_top /= NULL =>
    /\ Cardinality(LeafDepths(nodes, tree_top, 1)) = 1
    /\ nodes[tree_top].parent = NULL
    /\ \A n \in InnerNodesUnder(nodes, tree_top) : \A i \in 0 .. nodes[n].keycount :
         nodes[nodes[n].children[i]].parent = n

\* A recovered tree that has since grown a second level of inner nodes in
\* a Put that split a leaf.
C15_Witness ==
  /\ Height = 3
  /\ reopens > 0
  /\ last = Last("put", "splitalloc", "OK")
  /\ Cardinality(InnerNodesUnder(nodes, tree_top)) = 3

\* The live keys in the mirror of the leaf descriptors under node.
KeysUnder(ns, node) ==
  UNION { { ns[n].keys[s] : s \in { t \in Slots : ns[n].hashes[t] /= 0 } } :
            n \in LeafNodesUnder(ns, node) }

(***************************************************************************)
(* C16: after any sequence of Put and Remove, and after Recover, the       *)
(* separators of every inner node are strictly ascending, every key under  *)
(* child i is at most separator i and above separator i - 1, every key     *)
(* under the last child is above the last separator, and LeafSearch(k) for *)
(* a live key k returns the descriptor whose mirror holds k.               *)
(***************************************************************************)
C16_Separators ==
  /\ \A n \in InnerNodesUnder(nodes, tree_top) :
       /\ \A i \in 1 .. (nodes[n].keycount - 1) :
            Compare(nodes[n].keys[i - 1], nodes[n].keys[i]) < 0
       /\ \A i \in 0 .. nodes[n].keycount : \A k \in KeysUnder(nodes, nodes[n].children[i]) :
            /\ i < nodes[n].keycount => Compare(k, nodes[n].keys[i]) <= 0
            /\ i > 0 => Compare(k, nodes[n].keys[i - 1]) > 0
  /\ \A k \in LiveKeys :
       /\ LeafSearch(Vol, k) /= NULL
       /\ \E s \in Slots : /\ nodes[LeafSearch(Vol, k)].hashes[s] = PearsonHash(k)
                            /\ nodes[LeafSearch(Vol, k)].keys[s] = k

\* A transaction has aborted in a tree with an inner node, and the mirror
\* of the descriptor LeafSearch returns for a live key does not hold it.
C16_Witness ==
  /\ failures > 0
  /\ InnerNodesUnder(nodes, tree_top) /= {}
  /\ \E k \in LiveKeys :
       /\ LeafSearch(Vol, k) /= NULL
       /\ \A s \in Slots : nodes[LeafSearch(Vol, k)].keys[s] /= k

(***************************************************************************)
(* C17: between operations, for every leaf descriptor of the routing tree  *)
(* and every slot index, the mirror hash is 0 and the mirror key empty iff *)
(* the persistent slot of its leaf is empty, and otherwise mirror key and  *)
(* mirror hash are the stored key and the stored hash, which is            *)
(* PearsonHash(key); every non-empty persistent slot belongs to the leaf   *)
(* of exactly one descriptor.                                              *)
(***************************************************************************)
C17_MirrorCoherence ==
  /\ \A n \in LeafNodesUnder(nodes, tree_top) : \A s \in Slots :
       LET kv == pleaves[nodes[n].leaf].slots[s]
       IN  IF SlotEmpty(kv)
             THEN nodes[n].hashes[s] = 0 /\ nodes[n].keys[s] = <<>>
             ELSE /\ nodes[n].keys[s] = SlotKey(kv)
                  /\ nodes[n].hashes[s] = SlotHash(kv)
                  /\ SlotHash(kv) = PearsonHash(SlotKey(kv))
  /\ \A l \in 1 .. Len(pleaves) : \A s \in Slots :
       ~SlotEmpty(pleaves[l].slots[s]) =>
         Cardinality({ n \in LeafNodesUnder(nodes, tree_top) : nodes[n].leaf = l }) = 1

\* A transaction has aborted, and a descriptor of the tree shows an empty
\* mirror entry over a persistent slot that holds a key.
C17_Witness ==
  /\ failures > 0
  /\ \E n \in LeafNodesUnder(nodes, tree_top) : \E s \in Slots :
       /\ nodes[n].hashes[s] = 0
       /\ ~SlotEmpty(pleaves[nodes[n].leaf].slots[s])

\* What the step just taken did to the leaf list, given whether it was a
\* committed Put that needed a new leaf.
ListStep(needs_leaf) ==
  IF needs_leaf /\ leaves_prealloc = <<>>
    THEN /\ Len(pleaves') = Len(pleaves) + 1
         /\ head' = Len(pleaves')
         /\ pleaves'[head'].next = head
         /\ LeafList(Pm') = <<head'>> \o LeafList(Pm)
         /\ \A l \in 1 .. Len(pleaves) : pleaves'[l].next = pleaves[l].next
    ELSE /\ Len(pleaves') = Len(pleaves)
         /\ head' = head
         /\ \A l \in 1 .. Len(pleaves) : pleaves'[l].next = pleaves[l].next

(***************************************************************************)
(* C18: the persistent leaf list changes only by prepending.  A Put that   *)
(* needs a new leaf (first insert or split) prepends exactly one fresh     *)
(* leaf at head when leaves_prealloc is empty, and leaves head and every   *)
(* next pointer unchanged when it recycles a leaf of leaves_prealloc; a    *)
(* slot-fill Put, Remove and Recover never change the list; every          *)
(* persistent leaf is in the list exactly once.                            *)
(***************************************************************************)
C18_ListPrependOnly ==
  /\ [](NoDuplicates(LeafList(Pm)) /\ KeySet(LeafList(Pm)) = 1 .. Len(pleaves))
  /\ [][ListStep(/\ last'.op = "put"
                 /\ last'.status = "OK"
                 /\ last'.kind \in {"firstalloc", "firstprealloc",
                                    "splitalloc", "splitprealloc"})]_vars

\* A recovered engine has split a leaf into a recycled leaf, in a list of
\* leaves that grew by prepending.
C18_Witness ==
  /\ last = Last("put", "splitprealloc", "OK")
  /\ reopens > 0
  /\ Len(LeafList(Pm)) >= 2
  /\ leaves_prealloc = <<>>

(***************************************************************************)
(* C19: in every reachable state leaves_prealloc holds only persistent     *)
(* leaves that are in the persistent list, are all-empty, appear in it at  *)
(* most once and are not the leaf of a descriptor of the routing tree;     *)
(* Recover puts a leaf into leaves_prealloc iff it has no non-empty slot,  *)
(* and a leaf popped for a first insert or a split is removed from it.     *)
(***************************************************************************)
C19_Prealloc ==
  /\ [](/\ NoDuplicates(leaves_prealloc)
        /\ \A l \in KeySet(leaves_prealloc) :
             /\ l \in KeySet(LeafList(Pm)) \ deleted
             /\ \A s \in Slots : SlotEmpty(pleaves[l].slots[s])
             /\ \A n \in LeafNodesUnder(nodes, tree_top) : nodes[n].leaf /= l
        /\ last.op = "reopen" =>
             KeySet(leaves_prealloc) =
               { l \in KeySet(LeafList(Pm)) : \A s \in Slots : SlotEmpty(pleaves[l].slots[s]) })
  /\ [][leaves_prealloc' /= leaves_prealloc =>
          \/ last'.op = "reopen"
          \/ leaves_prealloc' = SubSeq(leaves_prealloc, 1, Len(leaves_prealloc) - 1)]_vars

\* Free has deleted the leaves of an engine that Recover had given a leaf
\* to recycle.
C19_Witness ==
  /\ kv_root = NULL
  /\ reopens > 0
  /\ leaves_prealloc /= <<>>
  /\ KeySet(leaves_prealloc) \subseteq deleted

\* The keys stored in the non-empty slots of persistent leaf l.
StoredKeys(leaves, l) ==
  { SlotKey(leaves[l].slots[s]) : s \in { t \in Slots : ~SlotEmpty(leaves[l].slots[t]) } }

\* The keys in the mirror of leaf descriptor n.
MirrorKeys(ns, n) == { ns[n].keys[s] : s \in { t \in Slots : ns[n].hashes[t] /= 0 } }

\* What the step just taken, a Put(k, v) that found the leaf of k full and
\* without k, has done: all are the L + 1 keys, split the one with
\* LEAF_KEYS_MIDPOINT of them below it.
SplitDone(k) ==
  LET ln == LeafSearch(Vol, k)
      nn == Len(nodes) + 1
      all == MirrorKeys(nodes, ln) \cup {k}
      split == CHOOSE x \in all :
                 Cardinality({ y \in all : Compare(y, x) < 0 }) = LEAF_KEYS_MIDPOINT
      lower == { x \in all : Compare(x, split) <= 0 }
      upper == { x \in all : Compare(x, split) > 0 }
      src == nodes[ln].leaf
      new == nodes'[nn].leaf
  IN  /\ Cardinality(all) = LEAF_KEYS + 1
      /\ nodes'[nn].is_leaf /\ new /= src /\ nodes'[ln].leaf = src
      /\ StoredKeys(pleaves', src) = lower /\ MirrorKeys(nodes', ln) = lower
      /\ StoredKeys(pleaves', new) = upper /\ MirrorKeys(nodes', nn) = upper
      /\ \A s \in Slots :
           Compare(nodes[ln].keys[s], split) > 0 =>
             /\ pleaves'[new].slots[s] = pleaves[src].slots[s]
             /\ SlotEmpty(pleaves'[src].slots[s]) \/ SlotKey(pleaves'[src].slots[s]) = k
      /\ Cardinality({ ls \in {src, new} \X Slots :
                         /\ ~SlotEmpty(pleaves'[ls[1]].slots[ls[2]])
                         /\ SlotKey(pleaves'[ls[1]].slots[ls[2]]) = k }) = 1
      /\ k \in StoredKeys(pleaves', IF Compare(k, split) > 0 THEN new ELSE src)
      /\ \E n \in InnerNodesUnder(nodes', tree_top') :
           \E i \in 0 .. (nodes'[n].keycount - 1) : nodes'[n].keys[i] = split

(***************************************************************************)
(* C20: a Put(k, v) that finds the leaf of k full and without k splits at  *)
(* the key at index LEAF_KEYS_MIDPOINT of the sorted L + 1 keys;           *)
(* afterwards the source leaf holds exactly the keys up to the split key   *)
(* and the new leaf exactly the keys above it, each moved key in the slot  *)
(* index it had, and k is stored exactly once, on the side its comparison  *)
(* with the split key chooses.                                             *)
(***************************************************************************)
C20_SplitPostcondition ==
  [][\A k \in Keys : \A v \in ValuesOf(k) :
       (Put(k, v) /\ PutPlan(Vol, Pm, k, v).kind = "split") => SplitDone(k)]_vars

\* The first split of a leaf has moved the key of slot 0 to slot 0 of the
\* new leaf and stored the new key in the source leaf.
C20_Witness ==
  /\ last = Last("put", "splitalloc", "OK")
  /\ removes = 0
  /\ reopens = 0
  /\ Len(pleaves) = 2
  /\ head = 2
  /\ ~SlotEmpty(pleaves[2].slots[0])
  /\ SlotEmpty(pleaves[2].slots[1])
  /\ \A s \in Slots : ~SlotEmpty(pleaves[1].slots[s])


(***************************************************************************)
(* The inner split promotes the middle key                                 *)
(***************************************************************************)
\* The first keycount separators of a node, and its non-null children.
SeparatorsOf(n) == { n.keys[i] : i \in 0 .. (n.keycount - 1) }
ChildrenOf(n) == { n.children[i] : i \in DOMAIN n.children } \ { NULL }

\* What the split recorded in innersplit has to have done, for the
\* overflowing node ov, the node old it has become and the new node new.
Promoted(I, ov, old, new, key, after, inner, ni) ==
  LET MIDPOINT == InnerKeysMidpoint(I)
  IN  /\ old.keycount = MIDPOINT
      /\ new.keycount = MIDPOINT
      /\ \A i \in 0 .. MIDPOINT : old.children[i] /= NULL /\ new.children[i] /= NULL
      /\ Cardinality(ChildrenOf(old)) = MIDPOINT + 1
      /\ Cardinality(ChildrenOf(new)) = MIDPOINT + 1
      \* the promoted key sorted between the two sides, and is in neither
      /\ key \in SeparatorsOf(ov)
      /\ \A k \in SeparatorsOf(old) : Compare(k, key) < 0
      /\ \A k \in SeparatorsOf(new) : Compare(key, k) < 0
      \* nothing is lost, nothing is duplicated
      /\ SeparatorsOf(ov) = SeparatorsOf(old) \cup { key } \cup SeparatorsOf(new)
      /\ Cardinality(SeparatorsOf(old)) = MIDPOINT
      /\ Cardinality(SeparatorsOf(new)) = MIDPOINT
      /\ ChildrenOf(ov) = ChildrenOf(old) \cup ChildrenOf(new)
      /\ ChildrenOf(old) \cap ChildrenOf(new) = {}
      \* the moved children point at the new node, the others at the old
      /\ \A c \in ChildrenOf(new) : after[c].parent = ni
      /\ \A c \in ChildrenOf(old) : after[c].parent = inner

SplitPromotes ==
  Promoted(innersplit.I, innersplit.before[innersplit.inner],
           innersplit.after[innersplit.inner], innersplit.after[innersplit.ni],
           innersplit.new_split_key, innersplit.after, innersplit.inner,
           innersplit.ni)

\* C21: for every INNER_KEYS value I, after the split of an inner node that
\* has overflowed to I + 1 separators the old node and the new node each
\* hold INNER_KEYS_MIDPOINT separators and INNER_KEYS_MIDPOINT + 1 non-null
\* children, the promoted key is the separator that sorted between the two
\* sides and is kept in neither, no separator or child of the overflowing
\* node is lost or duplicated, and every moved child's parent is the new
\* node.
C21_SplitPromotesMiddle == innersplit.I /= 0 => SplitPromotes

\* The same for the even values of INNER_KEYS only.
EvenSplitPromotesMiddle == innersplit.I /= 0 /\ innersplit.I % 2 = 0 => SplitPromotes

\* A node with three separators and then a fourth (INNER_KEYS = 3) has been
\* split, and so has a node that has overflowed to five (INNER_KEYS = 4).
C21_Witness ==
  /\ innersplit.I = 3
  /\ innersplit.before[innersplit.inner].keycount = 4
  /\ Len(innersplit.after) = Len(innersplit.before) + 1

EvenSplitWitness == innersplit.I = 4 /\ SplitPromotes

(***************************************************************************)
(* The inner-node assertions                                               *)
(***************************************************************************)
\* MVInnerNode::assert_invariants, one conjunct per assert: the keycount,
\* the separators, the children in use, the slots above them up to
\* children[INNER_KEYS].
KeycountInRange(n) == n.keycount <= INNER_KEYS
SeparatorsNonEmpty(n) ==
  \A i \in 0 .. (n.keycount - 1) : Len(n.keys[i]) > 0
ChildrenInUse(n) ==
  \A i \in 0 .. n.keycount : n.children[i] /= NULL
UnusedSlotsNull(n) ==
  \A i \in (n.keycount + 1) .. INNER_KEYS : n.children[i] = NULL

assert_invariants(n) ==
  /\ KeycountInRange(n)
  /\ SeparatorsNonEmpty(n)
  /\ ChildrenInUse(n)
  /\ UnusedSlotsNull(n)

\* The inner nodes LeafSearch can visit.  Each of them was checked by
\* InnerUpdateAfterSplit when it was last written (as the new top, after
\* the sorted insert, or as one of the two halves of a split), with the
\* keys and children it has now.
Checked == InnerNodesUnder(nodes, tree_top)

\* C22: for any sequence of Put, Remove and recovery over byte-string keys
\* that include the empty key, every inner node passes the assertions
\* LeafSearch and InnerUpdateAfterSplit check: keycount <= INNER_KEYS, each
\* of the first keycount separators is a non-empty string, children
\* 0 .. keycount are non-null and every child slot above keycount is null.
C22_AssertionsHold ==
  \A n \in Checked :
    /\ assert_invariants(nodes[n])
    /\ \A i \in DOMAIN nodes[n].children : i > nodes[n].keycount => nodes[n].children[i] = NULL

\* The assertions without the one on the separators.
AssertionsButSeparators ==
  \A n \in Checked :
    /\ KeycountInRange(nodes[n])
    /\ ChildrenInUse(nodes[n])
    /\ \A i \in DOMAIN nodes[n].children : i > nodes[n].keycount => nodes[n].children[i] = NULL

\* Recover has rebuilt inner nodes over leaves of which one holds the empty
\* key (and InnerUpdateAfterSplit has checked each inner node it built).
C22_Witness ==
  /\ last.op = "reopen"
  /\ Height >= 2
  /\ live[<<>>] /= NoValue

(***************************************************************************)
(* The volatile state after Free                                           *)
(***************************************************************************)
\* The deleted persistent leaves the engine still holds a pointer to: in a
\* leaf descriptor of the routing tree, or in leaves_prealloc.
Dangling ==
  { nodes[n].leaf : n \in LeafNodesUnder(nodes, tree_top) } \cap deleted

DanglingPrealloc == KeySet(leaves_prealloc) \cap deleted

\* C23: once Free has deleted every persistent leaf and the root, the
\* routing tree holds no descriptor of a deleted leaf, leaves_prealloc holds
\* no deleted leaf and the root reference is null, and no later Get, Put,
\* Remove, enumeration or Free dereferences a deleted leaf or the root.
C23_FreeLeavesNoReference ==
  kv_root = NULL =>
    /\ Dangling = {}
    /\ DanglingPrealloc = {}
    /\ \A t \in Threads : pc[t] /= "SIGSEGV" /\ call[t].status /= "UB"

\* After Free a Get has found its key in the routing tree and read the
\* slot of a deleted leaf.
C23_Witness ==
  /\ kv_root = NULL
  /\ Dangling /= {}
  /\ \E t \in Threads : call[t].name = "Get" /\ call[t].status = "UB"

(***************************************************************************)
(* The indices of the PearsonHash lookups                                  *)
(***************************************************************************)
\* The values of "hash ^ data[--i]" in the loop of PearsonHash from
\* data[i - 1] down, in memory mem.
RECURSIVE IndicesFrom(_, _, _, _)
IndicesFrom(mem, hash, data, i) ==
  IF i = 0 THEN {}
  ELSE LET index == PearsonIndex(hash, data[i])
       IN  {index} \cup UNION { IndicesFrom(r.mem, r.value, data, i - 1) :
                                  r \in TableRead(mem, index) }

\* The indices of the lookups of PearsonHash(data, size).
Indices(mem, data) == IndicesFrom(mem, Len(data) % 256, data, Len(data))

\* C24: PearsonHash is total over byte strings: for every key, bytes from
\* 0x80 up (read through a signed char) included, each index it uses for a
\* lookup in the 256-entry table is in 0 .. 255.
C24_IndexInTable ==
  \A k \in 1 .. Len(hashed) : Indices(below, hashed[k].data) \subseteq 0 .. 255

\* The same for the keys whose bytes are all below 0x80.
IndexInTableBelow0x80 ==
  \A k \in 1 .. Len(hashed) :
    (\A n \in 1 .. Len(hashed[k].data) : hashed[k].data[n] < 128) =>
       Indices(below, hashed[k].data) \subseteq 0 .. 255

\* A key of two bytes with a byte from 0x80 up has been hashed, and so has
\* a key of bytes below 0x80.
C24_Witness ==
  /\ \E k \in 1 .. Len(hashed) :
       /\ Len(hashed[k].data) = 2
       /\ \E n \in 1 .. 2 : hashed[k].data[n] >= 128
  /\ \E k \in 1 .. Len(hashed) : hashed[k].data = <<97, 15>>
====
